---- MODULE Spec2Model ----
(***************************************************************************)
(* Etikit label codecs: the TPCL driver (brace-delimited commands, tenths   *)
(* of a millimetre) and the ZPL driver (caret-delimited commands, dots).    *)
(* Command text is modelled character for character as a TLA+ string;      *)
(* numbers are integers, fractional quantities (millimetres, text scale)    *)
(* are fixed-point with FP units per 1.                                     *)
(***************************************************************************)
EXTENDS Integers, Sequences, FiniteSets, TLC

VARIABLES
  protocol,  \* the driver in use: "tpcl" or "zpl"
  origin,    \* where the run starts: a template of the editor or the text of a file
  label,     \* the template handed to generate
  text,      \* the command text: generate's output, or the file's content
  phase,     \* how far the run has come
  parser,    \* the local variables of the parse call in progress
  rnd,       \* the state of Math.random during the parse call in progress
  result,    \* what parse(text) returned, or the error it raised
  text2,     \* generate(parse(text))
  result2,   \* what a second call parse(text) returned
  loaded,    \* what loadTemplate made of the parsed file
  history    \* the editor's history: past, present, future

vars == <<protocol, origin, label, text, phase, parser, rnd, result, text2, result2,
          loaded, history>>

(***************************************************************************)
(* JavaScript values                                                        *)
(***************************************************************************)

\* fixed-point scale of fractional numbers (label millimetres, text scale)
FP == 10 * 10

\* the value parseInt returns when no digit is found
NaN == 0 - 1000000

IsFinite(v) == v # NaN

Min(a, b) == IF a <= b THEN a ELSE b
Max(a, b) == IF a >= b THEN a ELSE b

\* Math.round(a / b) for b > 0: nearest integer, halves towards +infinity
RoundDiv(a, b) == (2 * a + b) \div (2 * b)

CharAt(s, i) == SubSeq(s, i, i)

DigitChars == "0123456789"

IsDigit(c) == \E d \in 1..10 : CharAt(DigitChars, d) = c

DigitVal(c) == (CHOOSE d \in 1..10 : CharAt(DigitChars, d) = c) - 1

RECURSIVE NatToString(_)
NatToString(n) ==
  IF n < 10 THEN CharAt(DigitChars, n + 1)
  ELSE NatToString(n \div 10) \o CharAt(DigitChars, (n % 10) + 1)

\* Number.prototype.toString of an integer (NaN prints as "NaN")
NumToString(n) ==
  IF n = NaN THEN "NaN"
  ELSE IF n < 0 THEN "-" \o NatToString(0 - n)
  ELSE NatToString(n)

RECURSIVE PadStart(_, _, _)
PadStart(s, w, c) == IF Len(s) >= w THEN s ELSE PadStart(c \o s, w, c)

IsSpace(c) == c \in {" ", "\n", "\r", "\t"}

RECURSIVE SkipSpace(_)
SkipSpace(s) == IF Len(s) > 0 /\ IsSpace(Head(s)) THEN SkipSpace(Tail(s)) ELSE s

RECURSIVE DigitsValue(_, _)
DigitsValue(s, acc) ==
  IF Len(s) > 0 /\ IsDigit(Head(s))
  THEN DigitsValue(Tail(s), acc * 10 + DigitVal(Head(s)))
  ELSE acc

\* parseInt(s, 10): leading white space, an optional sign, then the longest
\* run of decimal digits; NaN when there is no digit
ParseInt(s) ==
  LET t == SkipSpace(s)
      neg == Len(t) > 0 /\ Head(t) = "-"
      u == IF Len(t) > 0 /\ Head(t) \in {"-", "+"} THEN Tail(t) ELSE t
  IN IF Len(u) > 0 /\ IsDigit(Head(u))
     THEN (IF neg THEN 0 - DigitsValue(u, 0) ELSE DigitsValue(u, 0))
     ELSE NaN

\* index of the first occurrence of character c in s at or after from; 0 if none
IndexFrom(s, c, from) ==
  LET S == {i \in from..Len(s) : CharAt(s, i) = c}
  IN IF S = {} THEN 0 ELSE CHOOSE i \in S : \A j \in S : i <= j

StartsWith(s, p) == Len(s) >= Len(p) /\ SubSeq(s, 1, Len(p)) = p

\* String.prototype.split(sep) for a one-character separator
RECURSIVE Split(_, _)
Split(s, sep) ==
  LET i == IndexFrom(s, sep, 1)
  IN IF i = 0 THEN <<s>>
     ELSE <<SubSeq(s, 1, i - 1)>> \o Split(SubSeq(s, i + 1, Len(s)), sep)

\* Array.prototype.join
RECURSIVE Join(_, _)
Join(lines, sep) ==
  IF Len(lines) = 0 THEN ""
  ELSE IF Len(lines) = 1 THEN lines[1]
  ELSE lines[1] \o sep \o Join(Tail(lines), sep)

\* params[k] of a JavaScript array (0-based k); a missing entry reads as undefined
Undefined == "undefined"
At(params, k) == IF k + 1 <= Len(params) THEN params[k + 1] ELSE Undefined

(***************************************************************************)
(* Shared constants (types.ts)                                              *)
(***************************************************************************)

COORDS_PER_MM == 10
DEFAULT_DPI == 203

(***************************************************************************)
(* TPCL driver: tables                                                      *)
(***************************************************************************)

Typo(code, family, size, weight, style) ==
  [code |-> code, fontFamily |-> family, fontSizePt |-> size,
   fontWeight |-> weight, fontStyle |-> style]

\* font sizes in fixed point (9.5 pt is 950)
TPCL_FONT_PRESETS ==
  << Typo("A", "times", 8 * FP, "normal", "normal"),
     Typo("B", "times", 10 * FP, "normal", "normal"),
     Typo("C", "times", 10 * FP, "bold", "normal"),
     Typo("D", "times", 12 * FP, "bold", "normal"),
     Typo("E", "times", 14 * FP, "bold", "normal"),
     Typo("F", "times", 12 * FP, "normal", "italic"),
     Typo("G", "helvetica", 6 * FP, "normal", "normal"),
     Typo("H", "helvetica", 10 * FP, "normal", "normal"),
     Typo("I", "helvetica", 12 * FP, "normal", "normal"),
     Typo("J", "helvetica", 12 * FP, "bold", "normal"),
     Typo("K", "helvetica", 14 * FP, "bold", "normal"),
     Typo("L", "helvetica", 12 * FP, "normal", "italic"),
     Typo("M", "presentation", 18 * FP, "bold", "normal"),
     Typo("N", "letter-gothic", 950, "normal", "normal"),
     Typo("O", "prestige-elite", 7 * FP, "normal", "normal"),
     Typo("P", "prestige-elite", 10 * FP, "normal", "normal"),
     Typo("Q", "courier", 10 * FP, "normal", "normal"),
     Typo("R", "courier", 12 * FP, "bold", "normal"),
     Typo("S", "ocr-a", 12 * FP, "normal", "normal"),
     Typo("T", "ocr-b", 12 * FP, "normal", "normal") >>

\* TPCL_FONT_PRESETS[code] ?? TPCL_FONT_PRESETS.G
PresetOfFirst(code) ==
  LET S == {i \in 1..Len(TPCL_FONT_PRESETS) : TPCL_FONT_PRESETS[i].code = code}
  IN IF S = {} THEN TPCL_FONT_PRESETS[1] ELSE TPCL_FONT_PRESETS[CHOOSE i \in S : TRUE]

PresetOf(code) ==
  LET S == {i \in 1..Len(TPCL_FONT_PRESETS) : TPCL_FONT_PRESETS[i].code = code}
      G == CHOOSE i \in 1..Len(TPCL_FONT_PRESETS) : TPCL_FONT_PRESETS[i].code = "G"
  IN IF S = {} THEN TPCL_FONT_PRESETS[G] ELSE TPCL_FONT_PRESETS[CHOOSE i \in S : TRUE]

normalizeTypography(el) ==
  [fontWeight |-> IF el.fontWeight = "bold" THEN "bold" ELSE "normal",
   fontStyle |-> IF el.fontStyle = "italic" THEN "italic" ELSE "normal",
   fontFamily |-> IF Len(el.fontFamily) > 0 THEN el.fontFamily ELSE "helvetica",
   fontSizePt |-> IF IsFinite(el.fontSizePt) /\ el.fontSizePt > 0
                  THEN el.fontSizePt ELSE 10 * FP]

\* the first preset equal on all four fields, 'G' when none is
getTpclFontIdAnyWeight(el) ==
  LET t == normalizeTypography(el)
      S == {i \in 1..Len(TPCL_FONT_PRESETS) :
              /\ TPCL_FONT_PRESETS[i].fontFamily = t.fontFamily
              /\ TPCL_FONT_PRESETS[i].fontSizePt = t.fontSizePt
              /\ TPCL_FONT_PRESETS[i].fontStyle = t.fontStyle}
  IN IF S = {} THEN "G"
     ELSE TPCL_FONT_PRESETS[CHOOSE i \in S : \A j \in S : i <= j].code

getTpclFontId(el) ==
  LET t == normalizeTypography(el)
      S == {i \in 1..Len(TPCL_FONT_PRESETS) :
              /\ TPCL_FONT_PRESETS[i].fontFamily = t.fontFamily
              /\ TPCL_FONT_PRESETS[i].fontSizePt = t.fontSizePt
              /\ TPCL_FONT_PRESETS[i].fontWeight = t.fontWeight
              /\ TPCL_FONT_PRESETS[i].fontStyle = t.fontStyle}
  IN IF S = {} THEN "G"
     ELSE TPCL_FONT_PRESETS[CHOOSE i \in S : \A j \in S : i <= j].code

BARCODE_MAP ==
  << <<"code128", "9">>, <<"ean13", "2">>, <<"ean8", "1">>,
     <<"upca", "3">>, <<"upce", "4">>, <<"code39", "5">> >>

\* BARCODE_MAP[type] || '9'
BarcodeCode(type) ==
  LET S == {i \in 1..Len(BARCODE_MAP) : BARCODE_MAP[i][1] = type}
  IN IF S = {} THEN "9" ELSE BARCODE_MAP[CHOOSE i \in S : TRUE][2]

\* REVERSE_BARCODE_MAP[code] || 'code128'
REVERSE_BARCODE_MAP(code) ==
  LET S == {i \in 1..Len(BARCODE_MAP) : BARCODE_MAP[i][2] = code}
  IN IF S = {} THEN "code128" ELSE BARCODE_MAP[CHOOSE i \in S : TRUE][1]

(***************************************************************************)
(* TPCL driver: generate                                                    *)
(***************************************************************************)

\* value of a text scale in fixed point; the emitted 2-digit magnification
normalizeMagNoCap(value) ==
  IF ~IsFinite(value) THEN 10
  ELSE IF value <= 0 THEN 10
  ELSE LET normalized == IF value < 10 * FP THEN RoundDiv(value * 10, FP)
                         ELSE RoundDiv(value, FP)
       IN Max(0, normalized)

normalizeMag(value) ==
  IF ~IsFinite(value) THEN 10
  ELSE IF value <= 0 THEN 10
  ELSE LET normalized == IF value < 10 * FP THEN RoundDiv(value * 10, FP)
                         ELSE RoundDiv(value, FP)
       IN Max(0, Min(99, normalized))

AllDigits(s) == \A i \in 1..Len(s) : IsDigit(CharAt(s, i))

\* /^<prefix>\d+$/.test(id)
isPrefixedId(id, prefix) ==
  /\ StartsWith(id, prefix)
  /\ Len(id) > Len(prefix)
  /\ AllDigits(SubSeq(id, Len(prefix) + 1, Len(id)))

\* v || 0
OrZero(v) == IF v = NaN THEN 0 ELSE v

\* Math.max(lo, Math.min(hi, Math.round(v))) of an integer or NaN
ClampNoFloor(lo, hi, v) == IF v = NaN THEN NaN ELSE Min(hi, v)

Clamp(lo, hi, v) == IF v = NaN THEN NaN ELSE Max(lo, Min(hi, v))

\* content ?? ''
ContentOr(el) == IF el.content = <<>> THEN "" ELSE el.content[1]

Pad(n, w) == PadStart(NumToString(n), w, "0")

\* the commands one element contributes to each of the four buckets
\* (index is the element's 0-based position in label.elements)
TpclElementCommands(el, index) ==
  LET x == Pad(el.x, 4)
      y == Pad(el.y, 4)
      rotationStr == Pad(OrZero(el.rotation), 2)
      none == [pc |-> <<>>, xb |-> <<>>, rc |-> <<>>, graphic |-> <<>>]
  IN CASE el.type = "text" ->
            LET h == Pad(normalizeMag(el.height), 2)
                w == Pad(normalizeMag(el.width), 2)
                font == getTpclFontId(el)
                pcId == IF isPrefixedId(el.id, "PC") THEN el.id ELSE "PC" \o Pad(index, 3)
                rcId == "RC" \o SubSeq(pcId, 3, Len(pcId))
            IN [none EXCEPT
                  !.pc = << "{" \o pcId \o ";" \o x \o "," \o y \o "," \o h \o "," \o w
                            \o "," \o font \o "," \o rotationStr \o ",B|}" >>,
                  !.rc = IF el.content # <<>>
                         THEN << "{" \o rcId \o ";" \o ContentOr(el) \o "|}" >>
                         ELSE <<>>]
       [] el.type = "barcode" ->
            LET barHeight == Pad(el.height, 4)
                narrowBar == Pad(el.width, 2)
                rotationVal == NumToString(Clamp(0, 3, OrZero(el.rotation)))
                barcodeType == BarcodeCode(el.barcodeType)
                xbId == IF isPrefixedId(el.id, "XB") THEN el.id ELSE "XB" \o Pad(index, 2)
                rbId == "RB" \o SubSeq(xbId, 3, Len(xbId))
            IN [none EXCEPT
                  !.xb = << "{" \o xbId \o ";" \o x \o "," \o y \o "," \o barcodeType
                            \o ",3," \o narrowBar \o "," \o rotationVal \o "," \o barHeight
                            \o ",+0000000000,000,0,00|}",
                            "{" \o rbId \o ";" \o ContentOr(el) \o "|}" >>]
       [] el.type = "qrcode" ->
            LET qrSize == Pad(Clamp(1, 20, el.size), 2)
                qrRotation == NumToString(Clamp(0, 3, OrZero(el.rotation)))
                errorCorrection == IF el.errorCorrection = "" THEN "H" ELSE el.errorCorrection
                qxId == IF isPrefixedId(el.id, "XB") THEN el.id ELSE "XB" \o Pad(index, 2)
                qbId == "RB" \o SubSeq(qxId, 3, Len(qxId))
            IN [none EXCEPT
                  !.xb = << "{" \o qxId \o ";" \o x \o "," \o y \o ",T," \o errorCorrection
                            \o "," \o qrSize \o ",A," \o qrRotation \o "|}",
                            "{" \o qbId \o ";" \o ContentOr(el) \o "|}" >>]
       [] el.type = "line" ->
            LET x2 == Pad(el.x2, 4)
                y2 == Pad(el.y2, 4)
            IN [none EXCEPT
                  !.graphic = << "{LC;" \o x \o "," \o y \o "," \o x2 \o "," \o y2 \o ",0,"
                                 \o NumToString(el.thickness) \o "|}" >>]
       [] el.type = "rectangle" ->
            LET rx2 == Pad(el.x + el.width, 4)
                ry2 == Pad(el.y + el.height, 4)
            IN [none EXCEPT
                  !.graphic = << "{XR;" \o x \o "," \o y \o "," \o rx2 \o "," \o ry2
                                 \o ",B|}" >>]
       [] OTHER -> none

\* one bucket (pcCommands, xbCommands, rcCommands or graphicCommands) after the forEach
TpclBucket(elements, k) ==
  LET f[i \in 0..Len(elements)] ==
        IF i = 0 THEN <<>> ELSE f[i - 1] \o TpclElementCommands(elements[i], i - 1)[k]
  IN f[Len(elements)]

\* label.height - 3: the effective length is the height less the gap
EffectiveHeightNoGap(height) == height

EffectiveHeight(height) == height - 3 * FP

\* the lines of TPCLDriver.generate, before they are joined
TpclLines(lbl) ==
  LET length == Pad(RoundDiv(lbl.height * COORDS_PER_MM, FP), 4)
      width == Pad(RoundDiv(lbl.width * COORDS_PER_MM, FP), 4)
      effectiveLength == Pad(RoundDiv(EffectiveHeight(lbl.height) * COORDS_PER_MM, FP), 4)
      ps == lbl.printSettings
  IN << "{C|}",
        "{D" \o length \o "," \o width \o "," \o effectiveLength \o "|}",
        "{AX;+000,+000,+00|}",
        "{AY;+10,0|}" >>
     \o TpclBucket(lbl.elements, "pc")
     \o TpclBucket(lbl.elements, "xb")
     \o TpclBucket(lbl.elements, "rc")
     \o TpclBucket(lbl.elements, "graphic")
     \o (IF ps # <<>>
         THEN << "{XS;I," \o Pad(ps[1].quantity, 4) \o ",0002C52200|}" >>
         ELSE << "{XS;I,0001,0002C52200|}" >>)

TpclGenerate(lbl) == Join(TpclLines(lbl), "\r\n") \o "\r\n"

(***************************************************************************)
(* TPCL driver: parse                                                       *)
(***************************************************************************)

\* Math.random().toString(36).substring(2, 11): the n-th identifier drawn in a
\* call whose generator state is seed; the draws of one call are distinct
RandomId(seed, n) == seed \o NumToString(n)

\* tpcl.match(/\{[^}]+\|?\}/g) || []
RECURSIVE TpclMatchFrom(_, _)
TpclMatchFrom(tpcl, from) ==
  LET open == IndexFrom(tpcl, "{", from)
      close == IF open = 0 THEN 0 ELSE IndexFrom(tpcl, "}", open + 1)
  IN IF open = 0 \/ close = 0 THEN <<>>
     ELSE IF close = open + 1 THEN TpclMatchFrom(tpcl, open + 1)
     ELSE <<SubSeq(tpcl, open, close)>> \o TpclMatchFrom(tpcl, close + 1)

TpclMatchCommands(tpcl) == TpclMatchFrom(tpcl, 1)

\* cmd.replace(/^\{/, '').replace(/\|?\}$/, '')
CleanCmd(cmd) ==
  LET inner == SubSeq(cmd, 2, Len(cmd) - 1)
  IN IF Len(inner) > 0 /\ CharAt(inner, Len(inner)) = "|"
     THEN SubSeq(inner, 1, Len(inner) - 1)
     ELSE inner

EmptyMap == [k \in {} |-> 0]

MapSet(m, key, v) == [k \in DOMAIN m \cup {key} |-> IF k = key THEN v ELSE m[k]]

\* n / COORDS_PER_MM millimetres, in fixed point
CoordsToMm(n) == IF n = NaN THEN NaN ELSE (n * FP) \div COORDS_PER_MM

\* an integer as a fixed-point number
Fx(n) == IF n = NaN THEN NaN ELSE n * FP

Sub(a, b) == IF a = NaN \/ b = NaN THEN NaN ELSE a - b

\* the parser's local state at the start of TPCLDriver.parse
TpclParseInit(tpcl) ==
  [commands |-> TpclMatchCommands(tpcl), idx |-> 1, elements |-> <<>>,
   textDefs |-> EmptyMap, barcodeDefs |-> EmptyMap,
   width |-> 100 * FP, height |-> 150 * FP, used |-> 0, threw |-> FALSE]

\* the 'D' size command (both branches): height and width from params
TpclSize(st, params) ==
  IF Len(params) >= 2
  THEN [st EXCEPT !.height = CoordsToMm(ParseInt(At(params, 0))),
                  !.width = CoordsToMm(ParseInt(At(params, 1)))]
  ELSE st

\* the element a data command RCnnn builds from its definition
TpclTextElement(def, content) ==
  LET typography == PresetOf(def.font)
  IN [id |-> def.id, type |-> "text", x |-> def.x, y |-> def.y,
      rotation |-> def.rotation,
      fontFamily |-> typography.fontFamily, fontSizePt |-> typography.fontSizePt,
      fontWeight |-> typography.fontWeight, fontStyle |-> typography.fontStyle,
      width |-> Fx(def.width), height |-> Fx(def.height), content |-> <<content>>]

\* the element a data command RBnn builds from its definition
\* params.length === 7 && params[2] === 'T'
IsQrDefinitionByMarker(params) == At(params, 2) = "T"

IsQrDefinition(params) == Len(params) = 7 /\ At(params, 2) = "T"

TpclCodeElement(def, content) ==
  LET params == def.params
  IN IF IsQrDefinition(params)
     THEN [id |-> def.id, type |-> "qrcode",
           x |-> ParseInt(At(params, 0)), y |-> ParseInt(At(params, 1)),
           rotation |-> ParseInt(At(params, 6)), size |-> ParseInt(At(params, 4)),
           content |-> <<content>>, errorCorrection |-> At(params, 3)]
     ELSE [id |-> def.id, type |-> "barcode",
           x |-> ParseInt(At(params, 0)), y |-> ParseInt(At(params, 1)),
           rotation |-> ParseInt(At(params, 5)),
           barcodeType |-> REVERSE_BARCODE_MAP(At(params, 2)),
           width |-> ParseInt(At(params, 4)), height |-> ParseInt(At(params, 6)),
           content |-> <<content>>]

\* the lookup key left as the data command's own type: the prefix is not replaced
DefinitionTagNotReplaced(commandType, prefix) == commandType

\* commandType.replace('RC', 'PC') and commandType.replace('RB', 'XB') of a
\* command type that starts with the data prefix
DefinitionTag(commandType, prefix) == prefix \o SubSeq(commandType, 3, Len(commandType))

\* one iteration of commands.forEach: the effect of command cmd on the local
\* state; reading parts[1] of a command that has no ';' raises a TypeError
TpclStep(st, cmd, seed) ==
  LET cleanCmd == CleanCmd(cmd)
      parts == Split(cleanCmd, ";")
      commandType == parts[1]
      noBody == Len(parts) = 1
      params == IF noBody THEN <<>> ELSE Split(parts[2], ",")
      content == SubSeq(cleanCmd, Len(commandType) + 2, Len(cleanCmd))
      next == [st EXCEPT !.idx = st.idx + 1]
      raise == [st EXCEPT !.threw = TRUE]
  IN IF StartsWith(cleanCmd, "D") /\ noBody
       THEN TpclSize(next, Split(SubSeq(cleanCmd, 2, Len(cleanCmd)), ","))
     ELSE IF commandType = "D" /\ ~noBody
       THEN TpclSize(next, params)
     ELSE IF commandType = "LC"
       THEN IF noBody THEN raise
            ELSE IF Len(params) >= 6
            THEN [next EXCEPT
                    !.used = st.used + 1,
                    !.elements = Append(st.elements,
                       [id |-> RandomId(seed, st.used + 1), type |-> "line",
                        x |-> ParseInt(At(params, 0)), y |-> ParseInt(At(params, 1)),
                        rotation |-> 0,
                        x2 |-> ParseInt(At(params, 2)), y2 |-> ParseInt(At(params, 3)),
                        thickness |-> ParseInt(At(params, 5))])]
            ELSE next
     ELSE IF commandType = "XR"
       THEN IF noBody THEN raise
            ELSE IF Len(params) >= 5
            THEN LET x1 == ParseInt(At(params, 0))
                     y1 == ParseInt(At(params, 1))
                     x2 == ParseInt(At(params, 2))
                     y2 == ParseInt(At(params, 3))
                 IN [next EXCEPT
                       !.used = st.used + 1,
                       !.elements = Append(st.elements,
                          [id |-> RandomId(seed, st.used + 1), type |-> "rectangle",
                           x |-> x1, y |-> y1, rotation |-> 0,
                           width |-> Sub(x2, x1), height |-> Sub(y2, y1),
                           thickness |-> 3])]
            ELSE next
     ELSE IF StartsWith(commandType, "PC")
       THEN IF noBody THEN raise
            ELSE [next EXCEPT
                    !.textDefs = MapSet(st.textDefs, commandType,
                       [x |-> ParseInt(At(params, 0)), y |-> ParseInt(At(params, 1)),
                        height |-> ParseInt(At(params, 2)),
                        width |-> ParseInt(At(params, 3)),
                        font |-> At(params, 4),
                        rotation |-> ParseInt(At(params, 5)),
                        id |-> commandType])]
     ELSE IF StartsWith(commandType, "RC")
       THEN LET pcId == DefinitionTag(commandType, "PC")
            IN IF pcId \in DOMAIN st.textDefs
               THEN [next EXCEPT !.elements =
                       Append(st.elements, TpclTextElement(st.textDefs[pcId], content))]
               ELSE next
     ELSE IF StartsWith(commandType, "XB")
       THEN IF noBody THEN raise
            ELSE [next EXCEPT
                    !.barcodeDefs = MapSet(st.barcodeDefs, commandType,
                       [params |-> params, id |-> commandType])]
     ELSE IF StartsWith(commandType, "RB")
       THEN LET xbId == DefinitionTag(commandType, "XB")
            IN IF xbId \in DOMAIN st.barcodeDefs
               THEN [next EXCEPT !.elements =
                       Append(st.elements, TpclCodeElement(st.barcodeDefs[xbId], content))]
               ELSE next
     ELSE next

TpclParsing(st) == ~st.threw /\ st.idx <= Len(st.commands)

\* the template TPCLDriver.parse returns once every command was handled
TpclTemplate(st) ==
  [name |-> "Imported Label", width |-> st.width, height |-> st.height,
   elements |-> st.elements, printSettings |-> <<>>]

RECURSIVE TpclRun(_, _)
TpclRun(st, seed) ==
  IF TpclParsing(st) THEN TpclRun(TpclStep(st, st.commands[st.idx], seed), seed) ELSE st

\* TPCLDriver.parse as a function of the text and of the random generator's
\* state: the returned template, or the TypeError it raises
TpclParse(tpcl, seed) ==
  LET st == TpclRun(TpclParseInit(tpcl), seed)
  IN IF st.threw THEN [threw |-> TRUE] ELSE [threw |-> FALSE, template |-> TpclTemplate(st)]

(***************************************************************************)
(* ZPL driver: tables and generate                                          *)
(***************************************************************************)

ZPL_FONT_METADATA ==
  << Typo("0", "helvetica", 10 * FP, "bold", "normal"),
     Typo("A", "courier", 5 * FP, "normal", "normal"),
     Typo("B", "courier", 7 * FP, "bold", "normal"),
     Typo("C", "ocr-b", 12 * FP, "normal", "normal"),
     Typo("D", "ocr-a", 10 * FP, "normal", "normal"),
     Typo("E", "helvetica", 12 * FP, "normal", "normal"),
     Typo("F", "helvetica", 14 * FP, "bold", "normal"),
     Typo("G", "helvetica", 18 * FP, "bold", "normal"),
     Typo("H", "helvetica", 12 * FP, "bold", "normal"),
     Typo("P", "times-roman", 10 * FP, "normal", "normal"),
     Typo("Q", "times-roman", 10 * FP, "bold", "normal"),
     Typo("R", "times-roman", 10 * FP, "normal", "normal"),
     Typo("S", "times-roman", 10 * FP, "bold", "normal"),
     Typo("T", "courier", 10 * FP, "normal", "normal"),
     Typo("U", "helvetica", 10 * FP, "normal", "normal"),
     Typo("V", "helvetica", 24 * FP, "normal", "normal") >>

getZplFontCode(el) == IF Len(el.fontCode) > 0 THEN el.fontCode ELSE ZPL_FONT_METADATA[1].code

\* ZPL_FONT_METADATA.find((p) => p.key === fontCode) ?? ZPL_FONT_METADATA[0]
ZplFontMeta(fontCode) ==
  LET S == {i \in 1..Len(ZPL_FONT_METADATA) : ZPL_FONT_METADATA[i].code = fontCode}
  IN IF S = {} THEN ZPL_FONT_METADATA[1]
     ELSE ZPL_FONT_METADATA[CHOOSE i \in S : \A j \in S : i <= j]

\* drivers[protocol]'s table of fonts
FontTable(p) == IF p = "tpcl" THEN TPCL_FONT_PRESETS ELSE ZPL_FONT_METADATA

\* supportedFonts.find((p) => p.key === textEl.fontCode) ?? supportedFonts[0]
resolveFontMeta(textEl, supportedFonts) ==
  LET S == {i \in 1..Len(supportedFonts) : supportedFonts[i].code = textEl.fontCode}
  IN IF S = {} THEN supportedFonts[1]
     ELSE supportedFonts[CHOOSE i \in S : \A j \in S : i <= j]

\* an optional value: <<>> when undefined, <<v>> when v
OptOr(opt, dflt) == IF opt = <<>> THEN dflt ELSE opt[1]

\* the dpi generate works with
ZplDpi(lbl) ==
  LET ps == lbl.printSettings
  IN IF ps # <<>> /\ ps[1].dpi # <<>> /\ IsFinite(ps[1].dpi[1]) /\ ps[1].dpi[1] > 0
     THEN ps[1].dpi[1] ELSE DEFAULT_DPI

\* Math.max(0, Math.round(mm * (dpi / 25.4))), mm in fixed point
mmToDotsDefaultDpi(mm, dpi) == Max(0, RoundDiv(mm * DEFAULT_DPI * 10, 254 * FP))

mmToDots(mm, dpi) == Max(0, RoundDiv(mm * dpi * 10, 254 * FP))

\* Math.max(1, Math.round(((pt * 25.4) / 72) * 1.4 * (dpi / 25.4))), pt in fixed point
ptToDots(pt, dpi) == Max(1, RoundDiv(pt * 14 * dpi, 720 * FP))

\* Math.round(fontHeightDots * 0.8)
estimateAscentDots(fontHeightDots) == RoundDiv(fontHeightDots * 8, 10)

\* the remainder operator of JavaScript: the sign of the dividend
JsRem(a, n) == IF a >= 0 THEN a % n ELSE 0 - ((0 - a) % n)

rotationToZpl(rotation) ==
  LET r == JsRem(JsRem(OrZero(rotation), 4) + 4, 4)
  IN IF r = 1 THEN "R" ELSE IF r = 2 THEN "I" ELSE IF r = 3 THEN "B" ELSE "N"

\* value.replaceAll('^', ' ').replaceAll('~', ' ')
RECURSIVE safeFieldDataTildeOnly(_)
safeFieldDataTildeOnly(value) ==
  IF Len(value) = 0 THEN ""
  ELSE (IF Head(value) = "~" THEN " " ELSE Head(value)) \o safeFieldDataTildeOnly(Tail(value))

RECURSIVE safeFieldData(_)
safeFieldData(value) ==
  IF Len(value) = 0 THEN ""
  ELSE (IF Head(value) \in {"^", "~"} THEN " " ELSE Head(value)) \o safeFieldData(Tail(value))

Abs(a) == IF a < 0 THEN 0 - a ELSE a

\* the lines one element contributes
ZplElementLines(el, dpi) ==
  CASE el.type = "text" ->
         LET fontCode == getZplFontCode(el)
             fontMeta == ZplFontMeta(fontCode)
             fontHeightDots ==
               Max(1, IF IsFinite(el.height) /\ el.height > 0
                      THEN RoundDiv(el.height, FP)
                      ELSE ptToDots(fontMeta.fontSizePt, dpi))
             fontWidthDots ==
               Max(1, IF IsFinite(el.width) /\ el.width > 0
                      THEN RoundDiv(el.width, FP)
                      ELSE fontHeightDots)
             xDots == Max(0, OrZero(el.x))
             yBaselineDots == OrZero(el.y)
             yTopDots == Max(0, yBaselineDots - estimateAscentDots(fontHeightDots))
         IN << "^FO" \o NumToString(xDots) \o "," \o NumToString(yTopDots),
               "^A" \o fontCode \o rotationToZpl(el.rotation) \o ","
                    \o NumToString(fontHeightDots) \o "," \o NumToString(fontWidthDots),
               "^FD" \o safeFieldData(ContentOr(el)) \o "^FS" >>
    [] el.type = "barcode" ->
         LET orientation == rotationToZpl(el.rotation)
             xDots == Max(0, OrZero(el.x))
             yDots == Max(0, OrZero(el.y))
             heightDots == Max(1, OrZero(el.height))
             narrowDots == Max(1, OrZero(el.width))
             ratio == Max(1, OptOr(el.ratio, 2))
             showText == IF el.showText = <<TRUE>> THEN "Y" ELSE "N"
             h == NumToString(heightDots)
             data == safeFieldData(ContentOr(el))
             bc == IF el.barcodeType = "code39"
                     THEN "^B3" \o orientation \o ",N," \o h \o "," \o showText \o ",N"
                   ELSE IF el.barcodeType = "ean13"
                     THEN "^BE" \o orientation \o "," \o h \o "," \o showText \o ",N,0"
                   ELSE IF el.barcodeType = "ean8"
                     THEN "^B8" \o orientation \o "," \o h \o "," \o showText \o ",N"
                   ELSE IF el.barcodeType = "upca"
                     THEN "^BU" \o orientation \o "," \o h \o "," \o showText \o ",N,N"
                   ELSE IF el.barcodeType = "upce"
                     THEN "^B9" \o orientation \o "," \o h \o "," \o showText \o ",N,N"
                   ELSE "^BC" \o orientation \o "," \o h \o "," \o showText \o ",N,N"
         IN << "^FO" \o NumToString(xDots) \o "," \o NumToString(yDots),
               "^BY" \o NumToString(narrowDots) \o "," \o NumToString(ratio) \o "," \o h,
               bc,
               "^FD" \o data \o "^FS" >>
    [] el.type = "qrcode" ->
         LET orientation == rotationToZpl(el.rotation)
             xDots == Max(0, OrZero(el.x))
             yDots == Max(0, OrZero(el.y))
             magnification == Max(1, Min(20, OrZero(el.size)))
             ec == IF el.errorCorrection = "" THEN "H" ELSE el.errorCorrection
         IN << "^FO" \o NumToString(xDots) \o "," \o NumToString(yDots),
               "^BQ" \o orientation \o ",2," \o NumToString(magnification) \o "," \o ec \o ",7",
               "^FDLA," \o safeFieldData(ContentOr(el)) \o "^FS" >>
    [] el.type = "rectangle" ->
         LET xDots == Max(0, OrZero(el.x))
             yDots == Max(0, OrZero(el.y))
             wDots == Max(1, OrZero(el.width))
             hDots == Max(1, OrZero(el.height))
             tDots == Max(1, OrZero(el.thickness))
         IN << "^FO" \o NumToString(xDots) \o "," \o NumToString(yDots),
               "^GB" \o NumToString(wDots) \o "," \o NumToString(hDots) \o ","
                     \o NumToString(tDots) \o ",B,0^FS" >>
    [] el.type = "line" ->
         LET dx == el.x2 - el.x
             dy == el.y2 - el.y
             tDots == Max(1, OrZero(el.thickness))
             xMin == Min(el.x, el.x2)
             yMin == Min(el.y, el.y2)
             wDots == Max(1, Abs(dx))
             hDots == Max(1, Abs(dy))
             fo == "^FO" \o NumToString(Max(0, xMin)) \o "," \o NumToString(Max(0, yMin))
         IN IF dx = 0 \/ dy = 0
            THEN LET boxW == IF dx = 0 THEN tDots ELSE wDots
                     boxH == IF dy = 0 THEN tDots ELSE hDots
                 IN << fo, "^GB" \o NumToString(boxW) \o "," \o NumToString(boxH) \o ","
                                 \o NumToString(tDots) \o ",B,0^FS" >>
            ELSE LET orientation == IF (dx >= 0) = (dy >= 0) THEN "R" ELSE "L"
                 IN << fo, "^GD" \o NumToString(wDots) \o "," \o NumToString(hDots) \o ","
                                 \o NumToString(tDots) \o ",B," \o orientation \o "^FS" >>
    [] OTHER -> <<>>

\* the lines of ZPLDriver.generate, before they are joined
ZplLines(lbl) ==
  LET dpi == ZplDpi(lbl)
      ps == lbl.printSettings
      body[i \in 0..Len(lbl.elements)] ==
        IF i = 0 THEN <<>> ELSE body[i - 1] \o ZplElementLines(lbl.elements[i], dpi)
  IN << "^XA",
        "^PW" \o NumToString(mmToDots(lbl.width, dpi)),
        "^LL" \o NumToString(mmToDots(lbl.height, dpi)) >>
     \o (IF ps # <<>> /\ ps[1].darkness # <<>>
         THEN << "^MD" \o NumToString(ps[1].darkness[1]) >> ELSE <<>>)
     \o (IF ps # <<>> /\ ps[1].speed # <<>>
         THEN << "^PR" \o NumToString(ps[1].speed[1]) >> ELSE <<>>)
     \o body[Len(lbl.elements)]
     \o (IF ps # <<>> THEN << "^PQ" \o NumToString(Max(1, ps[1].quantity)) >> ELSE <<>>)
     \o << "^XZ" >>

ZplGenerate(lbl) == Join(ZplLines(lbl), "\n") \o "\n"

(***************************************************************************)
(* ZPL driver: parse                                                        *)
(***************************************************************************)

\* content.indexOf(pat), 0-based, -1 when absent
IndexOfStr(content, pat) ==
  LET S == {i \in 1..(Len(content) - Len(pat) + 1) : SubSeq(content, i, i + Len(pat) - 1) = pat}
  IN IF S = {} THEN 0 - 1 ELSE (CHOOSE i \in S : \A j \in S : i <= j) - 1

\* content.lastIndexOf(pat), 0-based, -1 when absent
LastIndexOfStr(content, pat) ==
  LET S == {i \in 1..(Len(content) - Len(pat) + 1) : SubSeq(content, i, i + Len(pat) - 1) = pat}
  IN IF S = {} THEN 0 - 1 ELSE (CHOOSE i \in S : \A j \in S : i >= j) - 1

\* the text between the first ^XA and the last ^XZ, or all of it
ZplBody(content) ==
  LET start == IndexOfStr(content, "^XA")
      end == LastIndexOfStr(content, "^XZ")
  IN IF start >= 0 /\ end > start THEN SubSeq(content, start + 1, end + 3) ELSE content

\* zpl.split('^').filter(Boolean)
ZplCommands(content) == SelectSeq(Split(ZplBody(content), "^"), LAMBDA raw : Len(raw) > 0)

zplToRotation(o) ==
  IF o \in {"R", "r"} THEN 1
  ELSE IF o \in {"I", "i"} THEN 2
  ELSE IF o \in {"B", "b"} THEN 3
  ELSE 0

\* Number.isFinite(v) ? v : dflt
FiniteOr(v, dflt) == IF IsFinite(v) THEN v ELSE dflt

\* parts[k] of a split, "" standing for undefined (both are falsy)
PartOr(parts, k) == IF k + 1 <= Len(parts) THEN parts[k + 1] ELSE ""

\* o || 'N'
OrN(o) == IF o = "" THEN "N" ELSE o

\* the parser's local state at the start of ZPLDriver.parse
ZplParseInit(content) ==
  [commands |-> ZplCommands(content), idx |-> 1, fields |-> <<>>,
   printSettings |-> <<>>, hasPW |-> FALSE, hasLL |-> FALSE,
   pwDots |-> <<>>, llDots |-> <<>>, maxXDots |-> 0, maxYDots |-> 0,
   currentFO |-> <<>>, currentBy |-> <<>>, pending |-> <<>>, pendingData |-> <<>>]

\* printSettings || { quantity: 1 }
PsOrDefault(ps) ==
  IF ps = <<>> THEN [quantity |-> 1, darkness |-> <<>>, speed |-> <<>>, dpi |-> <<>>]
  ELSE ps[1]

updateMax(st, xDots, yDots, wDots, hDots) ==
  [st EXCEPT !.maxXDots = Max(@, Max(0, xDots) + Max(0, wDots)),
             !.maxYDots = Max(@, Max(0, yDots) + Max(0, hDots))]

\* the barcode commands and the type each one selects
ZplBarcodeType(cmd) ==
  CASE cmd = "BC" -> "code128"
    [] cmd = "B3" -> "code39"
    [] cmd = "BE" -> "ean13"
    [] cmd = "B8" -> "ean8"
    [] cmd = "BU" -> "upca"
    [] cmd = "B9" -> "upce"
    [] OTHER -> ""

\* the modules of a barcode, for the extent estimate
moduleCount(type, data) ==
  LET n == IF Len(data) = 0 THEN 1 ELSE Len(data)
  IN CASE type = "code39" -> n * 13 + 35
       [] type = "ean13" -> 95
       [] type = "ean8" -> 67
       [] type = "upca" -> 95
       [] type = "upce" -> 51
       [] OTHER -> n * 11 + 35

\* (pendingData ?? '').replace(/^LA,/, '')
StripLA(data) == IF StartsWith(data, "LA,") THEN SubSeq(data, 4, Len(data)) ELSE data

\* Math.max(1, currentBy?.w ?? 2) and Math.max(1, currentBy?.r ?? 2)
BarNarrowAlwaysDefault(currentBy) == 2

BarNarrow(currentBy) == Max(1, IF currentBy = <<>> THEN 2 ELSE currentBy[1].w)

BarRatio(currentBy) == Max(1, IF currentBy = <<>> THEN 2 ELSE currentBy[1].r)

\* the ^FS branch: close the pending field
ZplFieldSeparator(st) ==
  LET cleared == [st EXCEPT !.pending = <<>>, !.pendingData = <<>>]
  IN IF st.currentFO = <<>> \/ st.pending = <<>> THEN cleared
     ELSE
       LET fo == st.currentFO[1]
           pending == st.pending[1]
           data == OptOr(st.pendingData, "")
       IN CASE pending.kind = "text" ->
                 LET n == IF Len(data) = 0 THEN 1 ELSE Len(data)
                     approxWidthDots == Max(1, RoundDiv(n * pending.wDots * 6, 10))
                     m == updateMax(cleared, fo.xDots, fo.yDots, approxWidthDots,
                                    Max(1, pending.hDots))
                 IN [m EXCEPT !.fields = Append(@,
                       [kind |-> "text", foX |-> fo.xDots, foY |-> fo.yDots,
                        fontCode |-> pending.fontCode, o |-> pending.o,
                        hDots |-> pending.hDots, wDots |-> pending.wDots, data |-> data])]
            [] pending.kind = "barcode" ->
                 LET narrow == BarNarrow(st.currentBy)
                     ratio == BarRatio(st.currentBy)
                     m == updateMax(cleared, fo.xDots, fo.yDots,
                                    moduleCount(pending.type, data) * narrow,
                                    Max(1, pending.hDots))
                 IN [m EXCEPT !.fields = Append(@,
                       [kind |-> "barcode", foX |-> fo.xDots, foY |-> fo.yDots,
                        type |-> pending.type, o |-> pending.o, hDots |-> pending.hDots,
                        showText |-> pending.showText, narrowDots |-> narrow,
                        ratio |-> ratio, data |-> data])]
            [] pending.kind = "qrcode" ->
                 LET approxSizeDots == Max(1, 25 * Max(1, pending.mag))
                     m == updateMax(cleared, fo.xDots, fo.yDots, approxSizeDots, approxSizeDots)
                 IN [m EXCEPT !.fields = Append(@,
                       [kind |-> "qrcode", foX |-> fo.xDots, foY |-> fo.yDots,
                        o |-> pending.o, mag |-> pending.mag, ec |-> pending.ec,
                        data |-> StripLA(data)])]
            [] pending.kind \in {"gb", "gd"} ->
                 LET m == updateMax(cleared, fo.xDots, fo.yDots,
                                    Max(1, pending.wDots), Max(1, pending.hDots))
                 IN [m EXCEPT !.fields = Append(@,
                       [kind |-> pending.kind, foX |-> fo.xDots, foY |-> fo.yDots,
                        wDots |-> pending.wDots, hDots |-> pending.hDots,
                        tDots |-> pending.tDots, o |-> pending.o])]
            [] OTHER -> cleared

\* one iteration of the command loop of ZPLDriver.parse
ZplStep(st, raw) ==
  LET cmd == SubSeq(raw, 1, Min(2, Len(raw)))
      rest == SubSeq(raw, 3, Len(raw))
      parts == Split(rest, ",")
      n == ParseInt(rest)
  IN IF cmd = "PW"
       THEN IF IsFinite(n) THEN [st EXCEPT !.pwDots = <<n>>, !.hasPW = TRUE] ELSE st
     ELSE IF cmd = "LL"
       THEN IF IsFinite(n) THEN [st EXCEPT !.llDots = <<n>>, !.hasLL = TRUE] ELSE st
     ELSE IF cmd = "MD"
       THEN IF IsFinite(n)
            THEN [st EXCEPT !.printSettings = <<[PsOrDefault(@) EXCEPT !.darkness = <<n>>]>>]
            ELSE st
     ELSE IF cmd = "PR"
       THEN IF IsFinite(n)
            THEN [st EXCEPT !.printSettings = <<[PsOrDefault(@) EXCEPT !.speed = <<n>>]>>]
            ELSE st
     ELSE IF cmd = "PQ"
       THEN IF IsFinite(n)
            THEN [st EXCEPT !.printSettings = <<[PsOrDefault(@) EXCEPT !.quantity = n]>>]
            ELSE st
     ELSE IF cmd = "FO"
       THEN [st EXCEPT !.currentFO =
               <<[xDots |-> FiniteOr(ParseInt(At(parts, 0)), 0),
                  yDots |-> FiniteOr(ParseInt(At(parts, 1)), 0)]>>]
     ELSE IF cmd = "BY"
       THEN [st EXCEPT !.currentBy =
               <<[w |-> FiniteOr(ParseInt(At(parts, 0)), 2),
                  r |-> FiniteOr(ParseInt(At(parts, 1)), 2),
                  h |-> FiniteOr(ParseInt(At(parts, 2)), 10)]>>]
     ELSE IF StartsWith(cmd, "A")
       THEN [st EXCEPT !.pending =
               <<[kind |-> "text", fontCode |-> SubSeq(cmd, 2, Len(cmd)),
                  o |-> OrN(PartOr(parts, 0)),
                  hDots |-> FiniteOr(ParseInt(At(parts, 1)), 20),
                  wDots |-> FiniteOr(ParseInt(At(parts, 2)), 20)]>>]
     ELSE IF cmd \in {"BC", "B3", "BE", "B8", "BU", "B9"}
       THEN LET k == IF cmd = "B3" THEN 1 ELSE 0
                byH == IF st.currentBy = <<>> \/ st.currentBy[1].h = 0
                       THEN 10 ELSE st.currentBy[1].h
            IN [st EXCEPT !.pending =
                  <<[kind |-> "barcode", type |-> ZplBarcodeType(cmd),
                     o |-> OrN(PartOr(parts, 0)),
                     hDots |-> FiniteOr(ParseInt(At(parts, 1 + k)), byH),
                     showText |-> PartOr(parts, 2 + k) \in {"Y", "y"}]>>]
     ELSE IF cmd = "BQ"
       THEN [st EXCEPT !.pending =
               <<[kind |-> "qrcode", o |-> OrN(PartOr(parts, 0)),
                  mag |-> FiniteOr(ParseInt(At(parts, 2)), 4),
                  ec |-> PartOr(parts, 3)]>>]
     ELSE IF cmd \in {"GB", "GD"}
       THEN [st EXCEPT !.pending =
               <<[kind |-> IF cmd = "GB" THEN "gb" ELSE "gd",
                  wDots |-> FiniteOr(ParseInt(At(parts, 0)), 1),
                  hDots |-> FiniteOr(ParseInt(At(parts, 1)), 1),
                  tDots |-> FiniteOr(ParseInt(At(parts, 2)), 1),
                  o |-> IF cmd = "GD" THEN PartOr(parts, 4) ELSE ""]>>]
     ELSE IF cmd = "FD"
       THEN [st EXCEPT !.pendingData = <<rest>>]
     ELSE IF cmd = "FS"
       THEN ZplFieldSeparator(st)
     ELSE st

candidatesDpi == <<DEFAULT_DPI, 300, 600>>

\* the text heights in ascending order: [...arr].sort((a, b) => a - b)
RECURSIVE SortAsc(_)
SortAsc(arr) ==
  IF Len(arr) = 0 THEN <<>>
  ELSE LET i == CHOOSE i \in 1..Len(arr) : \A j \in 1..Len(arr) : arr[i] <= arr[j]
       IN <<arr[i]>> \o SortAsc(SubSeq(arr, 1, i - 1) \o SubSeq(arr, i + 1, Len(arr)))

\* sorted[Math.floor(sorted.length / 2)], <<>> standing for null
median(arr) == IF Len(arr) = 0 THEN <<>> ELSE <<SortAsc(arr)[(Len(arr) \div 2) + 1]>>

\* the score of one candidate; a length of d dots is d * 25.4 / dpi millimetres
\* and a text height of h dots is h * 72 / dpi points
DpiScore(dpi, wDots, hDots, typical) ==
  LET wide == wDots * 254
      high == hDots * 254
      sW == IF wide >= 200 * dpi /\ wide <= 1600 * dpi THEN 3
            ELSE IF wide >= 1600 * dpi /\ wide <= 2600 * dpi THEN 1
            ELSE 0 - 3
      sH == IF high >= 200 * dpi /\ high <= 2600 * dpi THEN 2
            ELSE IF high >= 2600 * dpi /\ high <= 4000 * dpi THEN 0
            ELSE 0 - 2
      sBig == IF wide > 6000 * dpi \/ high > 6000 * dpi THEN 0 - 10 ELSE 0
      sText == IF typical = <<>> THEN 0
               ELSE IF typical[1] * 72 >= 4 * dpi /\ typical[1] * 72 <= 72 * dpi THEN 1
               ELSE IF typical[1] * 72 > 150 * dpi THEN 0 - 2
               ELSE 0
  IN sW + sH + sBig + sText

\* if (score > bestScore): a candidate replaces the best one so far
BetterOrEqualScore(score, bestScore) == score >= bestScore

BetterScore(score, bestScore) == score > bestScore

\* the loop over candidatesDpi from candidate i on; acc is <<best, bestScore>>
RECURSIVE InferLoop(_, _, _, _, _)
InferLoop(i, acc, wDots, hDots, typical) ==
  IF i > Len(candidatesDpi) THEN acc
  ELSE LET score == DpiScore(candidatesDpi[i], wDots, hDots, typical)
       IN InferLoop(i + 1,
                    IF BetterScore(score, acc[2]) THEN <<candidatesDpi[i], score>> ELSE acc,
                    wDots, hDots, typical)

\* the best candidate, as a dpi (best * 25.4); NaN stands for -Infinity
inferDotsPerMm(wDots, hDots, textHeightsDots) ==
  InferLoop(1, <<DEFAULT_DPI, NaN>>, wDots, hDots, median(textHeightsDots))[1]

\* dotsToMm followed by roundTo(value, 0.1): a fixed-point number of millimetres
DotsToMmWhole(dots, dpi) == RoundDiv(dots * 254, dpi * 10) * FP

DotsToMmRounded(dots, dpi) == RoundDiv(dots * 254, dpi) * (FP \div 10)

\* the dpi the parser settles on
ZplSourceDpi(st) ==
  LET widthDotsForInference == OptOr(st.pwDots, Max(1, st.maxXDots))
      heightDotsForInference == OptOr(st.llDots, Max(1, st.maxYDots))
      texts == SelectSeq(st.fields, LAMBDA f : f.kind = "text")
      textHeightsDots == [i \in 1..Len(texts) |-> texts[i].hDots]
  IN inferDotsPerMm(widthDotsForInference, heightDotsForInference, textHeightsDots)

\* the label's width (axis "w") or height (axis "h") as parse returns it
ZplSize(st, axis) ==
  LET dpi == ZplSourceDpi(st)
      marginDots == RoundDiv(dpi * 100, 254)
      has == IF axis = "w" THEN st.hasPW ELSE st.hasLL
      given == IF axis = "w" THEN st.pwDots ELSE st.llDots
      maxDots == IF axis = "w" THEN st.maxXDots ELSE st.maxYDots
      dots == IF has THEN given[1] ELSE Max(1, maxDots + marginDots)
  IN IF dots <= 0 THEN (IF axis = "w" THEN 100 * FP ELSE 150 * FP)
     ELSE DotsToMmRounded(dots, dpi)

\* the element one field record becomes
ZplElement(field, id) ==
  LET xDots == Max(0, field.foX)
      yDotsTop == Max(0, field.foY)
  IN CASE field.kind = "text" ->
            [id |-> id, type |-> "text", x |-> xDots,
             y |-> Max(0, field.foY + estimateAscentDots(field.hDots)),
             rotation |-> zplToRotation(field.o), content |-> <<field.data>>,
             fontCode |-> IF field.fontCode = "" THEN "0" ELSE field.fontCode,
             width |-> Fx(Max(1, field.wDots)), height |-> Fx(Max(1, field.hDots))]
       [] field.kind = "barcode" ->
            [id |-> id, type |-> "barcode", x |-> xDots, y |-> yDotsTop,
             rotation |-> zplToRotation(field.o), content |-> <<field.data>>,
             barcodeType |-> field.type, width |-> Max(1, field.narrowDots),
             height |-> Max(1, field.hDots), ratio |-> <<Max(1, field.ratio)>>,
             showText |-> <<field.showText>>]
       [] field.kind = "qrcode" ->
            [id |-> id, type |-> "qrcode", x |-> xDots, y |-> yDotsTop,
             rotation |-> zplToRotation(field.o), content |-> <<field.data>>,
             size |-> Max(1, Min(20, field.mag)),
             errorCorrection |-> IF field.ec = "" THEN "H" ELSE field.ec]
       [] field.kind = "gb" ->
            LET wDots == Max(1, field.wDots)
                hDots == Max(1, field.hDots)
                tDots == Max(1, field.tDots)
                isVertical == field.wDots <= field.tDots
            IN IF field.wDots <= field.tDots \/ field.hDots <= field.tDots
               THEN [id |-> id, type |-> "line", x |-> xDots, y |-> yDotsTop, rotation |-> 0,
                     x2 |-> xDots + (IF isVertical THEN 0 ELSE wDots),
                     y2 |-> yDotsTop + (IF isVertical THEN hDots ELSE 0),
                     thickness |-> tDots]
               ELSE [id |-> id, type |-> "rectangle", x |-> xDots, y |-> yDotsTop,
                     rotation |-> 0, width |-> wDots, height |-> hDots, thickness |-> tDots]
       [] OTHER ->
            LET wDots == Max(1, field.wDots)
                hDots == Max(1, field.hDots)
            IN [id |-> id, type |-> "line", x |-> xDots, y |-> yDotsTop, rotation |-> 0,
                x2 |-> xDots + wDots,
                y2 |-> yDotsTop + (IF field.o \in {"L", "l"} THEN 0 ELSE hDots),
                thickness |-> Max(1, field.tDots)]

ZplParsing(st) == st.idx <= Len(st.commands)

\* what ZPLDriver.parse returns once the command loop has ended
ZplTemplate(st, seed) ==
  [name |-> "Imported ZPL",
   width |-> ZplSize(st, "w"),
   height |-> ZplSize(st, "h"),
   elements |-> [i \in 1..Len(st.fields) |-> ZplElement(st.fields[i], RandomId(seed, i))],
   printSettings |-> <<[PsOrDefault(st.printSettings) EXCEPT !.dpi = <<ZplSourceDpi(st)>>]>>,
   protocol |-> "zpl"]

RECURSIVE ZplRun(_)
ZplRun(st) ==
  IF ZplParsing(st)
  THEN ZplRun([ZplStep(st, st.commands[st.idx]) EXCEPT !.idx = st.idx + 1])
  ELSE st

ZplParse(content, seed) == ZplTemplate(ZplRun(ZplParseInit(content)), seed)

(***************************************************************************)
(* Inputs: the templates of the editor and the texts of imported files      *)
(***************************************************************************)

\* the longest element list of a template
MaxElems == 2

\* the most commands (TPCL) or fields (ZPL) in an imported file
MaxCmds == 3

\* the states Math.random can be in when parse is called
Seeds == {"k", "m"}

PrintSettings(quantity, dpi) ==
  <<[quantity |-> quantity, darkness |-> <<>>, speed |-> <<>>, dpi |-> dpi]>>

TextElement(id, x, y, rotation, content, width, height) ==
  [id |-> id, type |-> "text", x |-> x, y |-> y, rotation |-> rotation,
   content |-> content, fontFamily |-> "helvetica", fontSizePt |-> 10 * FP,
   fontWeight |-> "normal", fontStyle |-> "normal", fontCode |-> "0",
   width |-> width, height |-> height]

BarcodeElement(id, x, y, rotation, content, barcodeType, width, height) ==
  [id |-> id, type |-> "barcode", x |-> x, y |-> y, rotation |-> rotation,
   content |-> <<content>>, barcodeType |-> barcodeType, width |-> width,
   height |-> height, ratio |-> <<>>, showText |-> <<>>]

QRCodeElement(id, x, y, rotation, content, size) ==
  [id |-> id, type |-> "qrcode", x |-> x, y |-> y, rotation |-> rotation,
   content |-> <<content>>, size |-> size, errorCorrection |-> ""]

LineElement(id, x, y, x2, y2, thickness) ==
  [id |-> id, type |-> "line", x |-> x, y |-> y, rotation |-> 0,
   x2 |-> x2, y2 |-> y2, thickness |-> thickness]

RectangleElement(id, x, y, width, height, thickness) ==
  [id |-> id, type |-> "rectangle", x |-> x, y |-> y, rotation |-> 0,
   width |-> width, height |-> height, thickness |-> thickness]

\* elements in tenths of a millimetre, as the TPCL editor holds them
TpclElements ==
  { TextElement("e1", 253, 355, 0, <<"Hello">>, 10 * FP, 10 * FP),
    TextElement("e2", 40, 60, 0, <<>>, 10 * FP, 10 * FP),
    TextElement("e3", 20, 30, 7, <<"Hi">>, 1 * FP, 150 * FP),
    TextElement("PC001", 80, 90, 1, <<"">>, 20 * FP, 20 * FP),
    BarcodeElement("e4", 100, 200, 0, "123", "code128", 3, 100),
    BarcodeElement("e5", 300, 400, 7, "4006381333931", "ean13", 2, 80),
    QRCodeElement("e6", 500, 600, 1, "qr", 25),
    LineElement("e7", 10, 20, 300, 20, 3),
    RectangleElement("e8", 10, 20, 300, 200, 5) }

\* elements in dots, as the ZPL editor holds them
ZplElements ==
  { TextElement("z1", 50, 100, 0, <<"Hello">>, 30 * FP, 30 * FP),
    TextElement("z2", 60, 5, 1, <<"Lo^w">>, 20 * FP, 20 * FP),
    BarcodeElement("z3", 100, 200, 7, "123", "code128", 3, 100),
    QRCodeElement("z4", 300, 400, 2, "qr", 5),
    LineElement("z5", 10, 20, 300, 20, 3),
    LineElement("z6", 10, 20, 40, 60, 2),
    LineElement("z7", 10, 60, 40, 20, 2),
    RectangleElement("z8", 10, 20, 300, 200, 5) }

\* the element lists of at most MaxElems elements of pool, ids pairwise distinct
ElementLists(pool) ==
  { s \in UNION { [1..n -> pool] : n \in 0..MaxElems } :
      \A i, j \in DOMAIN s : i # j => s[i].id # s[j].id }

TpclTemplates ==
  { [name |-> "Label", width |-> 100 * FP, height |-> 150 * FP,
     elements |-> es, printSettings |-> ps] :
    es \in ElementLists(TpclElements), ps \in {<<>>, PrintSettings(5, <<>>)} }

ZplTemplates ==
  { [name |-> "Label", width |-> 100 * FP, height |-> 150 * FP,
     elements |-> es, printSettings |-> ps] :
    es \in ElementLists(ZplElements),
    ps \in {PrintSettings(1, <<>>), PrintSettings(2, <<300>>)} }

\* the commands a TPCL file is made of, well-formed and not
TpclFileCommands ==
  { "{PC001;0010,0020,10,10,G,00,B|}",
    "{RC001;Hi|}",
    "{XB02;0100,0200,9,3,03,0,0100,+0000000000,000,0,00|}",
    "{RB02;123|}",
    "{LC;0001,0002,0030,0002,0,3|}",
    "{XR;0001,0002|}",
    "{PC003|}" }

\* the fields a ZPL file is made of
ZplFileFields ==
  { "^FO10,20^A0N,30,30^FDhi^FS\n",
    "^BY3,2,50^FO5,5^BCN,,Y^FD12^FS\n",
    "^GB100,3,3^FS",
    "^PW816\n",
    "^LL1218\n",
    "^PQ0^MD12\n",
    "^FDx^XZ~" }

\* the sizes a QR code may be given, and the widths and heights (fixed
\* point) a TPCL text may be given
QrSizes == {0 - 3, 0, 1, 7, 20, 21, 25}
TextScales ==
  {0 - FP, 0, 4, FP \div 2, FP, 996, 10 * FP, 1050, 99 * FP, 150 * FP}

\* label sizes in millimetres (fixed point): <<width, height>>
LabelSizes == {<<100 * FP, 150 * FP>>, <<5050, 3026>>, <<2504, 204>>}

\* horizontal and vertical lines in dots: long, shorter than thick, as long
\* as thick, drawn from right to left and from bottom to top
SweepLines ==
  { LineElement("l", 10, 20, 310, 20, 3),
    LineElement("l", 10, 20, 12, 20, 3),
    LineElement("l", 10, 20, 13, 20, 3),
    LineElement("l", 310, 20, 10, 20, 3),
    LineElement("l", 10, 20, 10, 60, 2),
    LineElement("l", 10, 20, 10, 21, 5),
    LineElement("l", 10, 60, 10, 20, 2) }

\* the typographies of the TPCL table and some that are one field away
\* from an entry of it
SweepTypographies ==
  { TPCL_FONT_PRESETS[i] : i \in 1..Len(TPCL_FONT_PRESETS) }
  \cup { Typo("", "helvetica", 11 * FP, "normal", "normal"),
         Typo("", "helvetica", 10 * FP, "bold", "normal"),
         Typo("", "times", 12 * FP, "bold", "italic"),
         Typo("", "arial", 12 * FP, "normal", "normal") }

\* the one element of a template made to try one value
SweepElements(p) ==
  { QRCodeElement("q", 500, 600, 1, "qr", size) : size \in QrSizes }
  \cup (IF p = "tpcl"
        THEN { BarcodeElement("b", 100, 200, 0, "123", BARCODE_MAP[i][1], 3, 100) :
                 i \in 1..Len(BARCODE_MAP) }
             \cup { TextElement("t", 40, 60, 0, <<"T">>, v, 10 * FP) : v \in TextScales }
             \cup { TextElement("t", 40, 60, 0, <<"T">>, 10 * FP, v) : v \in TextScales }
             \cup { [TextElement("f", 40, 60, 0, <<"T">>, 10 * FP, 10 * FP) EXCEPT
                        !.fontFamily = t.fontFamily, !.fontSizePt = t.fontSizePt,
                        !.fontWeight = t.fontWeight, !.fontStyle = t.fontStyle] :
                      t \in SweepTypographies }
        ELSE SweepLines
             \cup { TextElement("c", 50, 100, 0, <<"a^FS~b">>, 30 * FP, 30 * FP),
                    TextElement("c", 50, 100, 0, <<"^">>, 30 * FP, 30 * FP),
                    BarcodeElement("c", 100, 200, 0, "1^2~3", "code128", 3, 100),
                    BarcodeElement("c", 100, 200, 0, "~JR", "code39", 3, 100),
                    QRCodeElement("c", 300, 400, 0, "q^XZ~r^XA", 5) })

\* common label sizes in millimetres
CommonLabelSizes == {<<100 * FP, 150 * FP>>, <<102 * FP, 76 * FP>>}

\* ZPL templates of a common size at each resolution, empty and with a text
DpiTemplates ==
  { [name |-> "Label", width |-> size[1], height |-> size[2], elements |-> es,
     printSettings |-> PrintSettings(1, <<dpi>>)] :
    size \in CommonLabelSizes, dpi \in {DEFAULT_DPI, 300, 600},
    es \in {<<>>, <<TextElement("d", 50, 100, 0, <<"Hello">>, 30 * FP, 30 * FP)>>} }

SweepTemplates(p) ==
  { [name |-> "Label", width |-> size[1], height |-> size[2], elements |-> <<el>>,
     printSettings |-> IF p = "tpcl" THEN <<>> ELSE PrintSettings(1, <<>>)] :
    el \in SweepElements(p), size \in LabelSizes }
  \cup (IF p = "zpl" THEN DpiTemplates ELSE {})

\* the highest magnification two digits hold
MaxMag == 99

\* the font codes of a protocol's table and two codes that are in neither
SweepFontCodes(p) ==
  { FontTable(p)[i].code : i \in 1..Len(FontTable(p)) } \cup {"Z", "9"}

\* files of one QR code each, the magnification in range, out of range, missing,
\* and (ZPL) of one box each: flat, narrow, wide and high, all thickness
SweepFiles(p) ==
  IF p = "tpcl"
  THEN { "{XB00;0500,0600,T,H," \o m \o ",A,1|}{RB00;qr|}" : m \in {"00", "07", "25"} }
       \cup { "{XB01;0100,0200," \o def \o "|}{RB01;1|}" :
               def \in {"9,3,03,0,0100", "T,H,05,A,1,9", "T,H,05,A", "5,3,03,0,0100,+0000000000,000,0,00"} }
       \cup { "{PC001;0010,0020,10,10," \o font \o ",00,B|}{RC001;Hi|}" : font \in SweepFontCodes(p) }
       \cup { "{PC001;0010,0020," \o Pad(m, 2) \o ",10,G,00,B|}{RC001;Hi|}" : m \in 1..MaxMag }
       \cup { "{PC001;0010,0020,10," \o Pad(m, 2) \o ",G,00,B|}{RC001;Hi|}" : m \in {1, 5, 9, 50, MaxMag} }
  ELSE { "^FO1,1^BQN,2," \o m \o ",H,7^FDLA,q^FS\n" : m \in {"0", "7", "25", "-4", ""} }
       \cup { "^FO5,6^GB" \o box \o ",B,0^FS\n" :
               box \in {"100,3,3", "3,100,3", "2,100,3", "50,60,2", "3,3,3", "2,5,9"} }
       \cup { "^FO10,20^A" \o font \o "N,30,30^FDhi^FS\n" : font \in SweepFontCodes(p) }

\* the fields of the ZPL files an import reads: page sizes that resolve to
\* each resolution, fields with and without an origin, bar codes with and
\* without a ^BY, a QR code with too high a magnification
ZplImportFields ==
  { "^PW816^LL1218\n",
    "^PW1500\n",
    "^PW2401\n",
    "^FO10,20^A0N,30,30^FDhi^FS\n",
    "^GB100,3,3^FS\n",
    "^BY3,3,50^FO5,5^BCN,,Y^FD12^FS\n",
    "^FO7,7^BCN,,Y^FD34^FS\n",
    "^BY4,2,10^FO1,1^BQN,2,25,H,7^FDLA,q^FS\n" }

\* the texts of at most MaxCmds pieces
RECURSIVE Concat(_)
Concat(pieces) == IF Len(pieces) = 0 THEN "" ELSE Head(pieces) \o Concat(Tail(pieces))

Files(pieces) == { Concat(s) : s \in UNION { [1..n -> pieces] : n \in 0..MaxCmds } }

NoLabel == [name |-> "", width |-> 0, height |-> 0, elements |-> <<>>, printSettings |-> <<>>]
NoParser == [commands |-> <<>>, idx |-> 1]
NoResult == [threw |-> FALSE]
NoLoaded == [elements |-> <<>>]
NoHistory == [past |-> <<>>, present |-> <<>>, future |-> <<>>]

(***************************************************************************)
(* The codec in use: generate, parse command by command, generate again,    *)
(* parse the same text a second time                                        *)
(***************************************************************************)

\* drivers[protocol].generate(template)
DriverGenerate(p, lbl) == IF p = "tpcl" THEN TpclGenerate(lbl) ELSE ZplGenerate(lbl)

\* drivers[protocol].parse(content), seed the state of Math.random
DriverParse(p, content, seed) ==
  IF p = "tpcl" THEN TpclParse(content, seed)
  ELSE [threw |-> FALSE, template |-> ZplParse(content, seed)]

Init ==
  /\ protocol \in {"tpcl", "zpl"}
  /\ origin \in {"editor", "file"}
  /\ label \in (IF origin = "file" THEN {NoLabel}
                ELSE IF protocol = "tpcl" THEN TpclTemplates ELSE ZplTemplates)
  /\ text \in (IF origin = "editor" THEN {""}
               ELSE IF protocol = "tpcl" THEN Files(TpclFileCommands)
               ELSE Files(ZplFileFields))
  /\ phase = (IF origin = "editor" THEN "template" ELSE "text")
  /\ parser = NoParser
  /\ rnd = ""
  /\ result = NoResult
  /\ text2 = ""
  /\ result2 = NoResult
  /\ loaded = NoLoaded
  /\ history = NoHistory

\* generate(label)
Generate ==
  /\ phase = "template"
  /\ text' = DriverGenerate(protocol, label)
  /\ phase' = "text"
  /\ UNCHANGED <<protocol, origin, label, parser, rnd, result, text2, result2, loaded, history>>

\* parse(text) is entered: the commands are cut out of the text
ParseBegin ==
  /\ phase = "text"
  /\ \E seed \in Seeds : rnd' = seed
  /\ parser' = (IF protocol = "tpcl" THEN TpclParseInit(text) ELSE ZplParseInit(text))
  /\ phase' = "parsing"
  /\ UNCHANGED <<protocol, origin, label, text, result, text2, result2, loaded, history>>

\* one iteration of the command loop; a TypeError leaves parse at once
ParseCommand ==
  /\ phase = "parsing"
  /\ parser.idx <= Len(parser.commands)
  /\ LET cmd == parser.commands[parser.idx]
         st == IF protocol = "tpcl" THEN TpclStep(parser, cmd, rnd)
               ELSE [ZplStep(parser, cmd) EXCEPT !.idx = parser.idx + 1]
     IN /\ parser' = st
        /\ IF protocol = "tpcl" /\ st.threw
           THEN phase' = "failed" /\ result' = [threw |-> TRUE]
           ELSE UNCHANGED <<phase, result>>
  /\ UNCHANGED <<protocol, origin, label, text, rnd, text2, result2, loaded, history>>

\* the loop has ended: parse returns the template
ParseReturn ==
  /\ phase = "parsing"
  /\ parser.idx > Len(parser.commands)
  /\ result' = [threw |-> FALSE,
                template |-> IF protocol = "tpcl" THEN TpclTemplate(parser)
                             ELSE ZplTemplate(parser, rnd)]
  /\ phase' = "parsed"
  /\ UNCHANGED <<protocol, origin, label, text, parser, rnd, text2, result2, loaded, history>>

\* generate(parse(text))
Regenerate ==
  /\ phase = "parsed"
  /\ text2' = DriverGenerate(protocol, result.template)
  /\ phase' = "regenerated"
  /\ UNCHANGED <<protocol, origin, label, text, parser, rnd, result, result2, loaded, history>>

\* a second call parse(text), Math.random in whatever state it is by then
ParseAgain ==
  /\ phase = "regenerated"
  /\ \E seed \in Seeds : result2' = DriverParse(protocol, text, seed)
  /\ phase' = "done"
  /\ UNCHANGED <<protocol, origin, label, text, parser, rnd, result, text2, loaded, history>>

COMMON_DPI_PRESETS == <<DEFAULT_DPI, 300, 600>>

\* the preset nearest to dpi, the first of them when two are equally near
normalizeDpiToPreset(dpi) ==
  LET value == IF IsFinite(dpi) /\ dpi > 0 THEN dpi ELSE DEFAULT_DPI
      diff(i) == Abs(COMMON_DPI_PRESETS[i] - value)
      best == CHOOSE i \in 1..Len(COMMON_DPI_PRESETS) :
                /\ \A j \in 1..Len(COMMON_DPI_PRESETS) : diff(i) <= diff(j)
                /\ \A j \in 1..(i - 1) : diff(j) > diff(i)
  IN COMMON_DPI_PRESETS[best]

\* the quantity loadTemplate keeps: the parsed one when it is above 0, else 1
MigratedQuantityNoFloor(rawPs) ==
  IF rawPs # <<>> /\ IsFinite(rawPs[1].quantity) THEN rawPs[1].quantity ELSE 1

MigratedQuantity(rawPs) ==
  IF rawPs # <<>> /\ IsFinite(rawPs[1].quantity) /\ rawPs[1].quantity > 0
  THEN rawPs[1].quantity ELSE 1

\* migratedPs of loadTemplate: every field of the print settings filled
MigratePrintSettings(rawPs) ==
  LET dpi == IF rawPs # <<>> /\ rawPs[1].dpi # <<>> /\ IsFinite(rawPs[1].dpi[1])
                /\ rawPs[1].dpi[1] > 0
             THEN rawPs[1].dpi[1] ELSE DEFAULT_DPI
      speed == IF rawPs # <<>> /\ rawPs[1].speed # <<>> /\ IsFinite(rawPs[1].speed[1])
               THEN rawPs[1].speed[1] ELSE 3
      darkness == IF rawPs # <<>> /\ rawPs[1].darkness # <<>>
                     /\ IsFinite(rawPs[1].darkness[1])
                  THEN rawPs[1].darkness[1] ELSE 10
  IN [quantity |-> MigratedQuantity(rawPs), speed |-> <<speed>>,
      darkness |-> <<darkness>>, dpi |-> <<normalizeDpiToPreset(dpi)>>]

\* Math.round(value * 10) / 10 of a fixed-point number of millimetres
roundMm(value) == IF IsFinite(value) THEN RoundDiv(value * 10, FP) * (FP \div 10) ELSE value

\* loadTemplate, once the driver's parse has returned the template
LoadTemplate ==
  /\ phase = "parsed"
  /\ loaded' = [elements |-> result.template.elements,
                width |-> roundMm(result.template.width),
                height |-> roundMm(result.template.height),
                printSettings |-> MigratePrintSettings(result.template.printSettings),
                protocol |-> protocol]
  /\ phase' = "loaded"
  /\ UNCHANGED <<protocol, origin, label, text, parser, rnd, result, text2, result2,
                 history>>

\* the import of a ZPL file: parse, loadTemplate, or generate of what parse returned
InitZplImport ==
  /\ protocol = "zpl"
  /\ origin = "file"
  /\ label = NoLabel
  /\ text \in Files(ZplImportFields)
  /\ phase = "text"
  /\ parser = NoParser
  /\ rnd = ""
  /\ result = NoResult
  /\ text2 = ""
  /\ result2 = NoResult
  /\ loaded = NoLoaded
  /\ history = NoHistory

NextZplImport ==
  \/ ParseBegin
  \/ ParseCommand
  \/ ParseReturn
  \/ Regenerate
  \/ LoadTemplate

SpecZplImport == InitZplImport /\ [][NextZplImport]_vars

\* one element, one value: generate and parse of a template of one element,
\* parse of a file of one QR code
InitSweep ==
  /\ protocol \in {"tpcl", "zpl"}
  /\ origin \in {"editor", "file"}
  /\ label \in (IF origin = "file" THEN {NoLabel} ELSE SweepTemplates(protocol))
  /\ text \in (IF origin = "editor" THEN {""} ELSE SweepFiles(protocol))
  /\ phase = (IF origin = "editor" THEN "template" ELSE "text")
  /\ parser = NoParser
  /\ rnd = ""
  /\ result = NoResult
  /\ text2 = ""
  /\ result2 = NoResult
  /\ loaded = NoLoaded
  /\ history = NoHistory

NextSweep ==
  \/ Generate
  \/ ParseBegin
  \/ ParseCommand
  \/ ParseReturn
  \/ Regenerate

SpecSweep == InitSweep /\ [][NextSweep]_vars

(***************************************************************************)
(* The editor's history (useHistory)                                        *)
(***************************************************************************)

MaxOps == 4

\* the states of the editor: the label's name and the selected element's id
\* (<<>>: null)
EditorState(name, selectedId) == [name |-> name, selectedId |-> selectedId]

InitialState == EditorState("Untitled", <<>>)

EditorStates ==
  { InitialState, EditorState("Untitled", <<"e1">>), EditorState("Box", <<>>) }

\* JSON.stringify(state); state is <<>> when it is undefined
JsonStringify(state) ==
  IF state = <<>> THEN Undefined
  ELSE "{\"name\":\"" \o state[1].name \o "\",\"selectedId\":"
       \o (IF state[1].selectedId = <<>> THEN "null"
           ELSE "\"" \o state[1].selectedId[1] \o "\"")
       \o "}"

\* the hook's state and what the last render made of it: canUndo and canRedo
\* are the values the callbacks undo and redo of that render closed over;
\* calls counts the calls made so far
History(past, present, future) ==
  [past |-> past, present |-> present, future |-> future,
   canUndo |-> Len(past) > 0, canRedo |-> Len(future) > 0, calls |-> 0]

\* arr[arr.length - 1] and arr[0], <<>> (undefined) for an empty array
LastOrUndefined(arr) == IF Len(arr) = 0 THEN <<>> ELSE arr[Len(arr)]
FirstOrUndefined(arr) == IF Len(arr) = 0 THEN <<>> ELSE arr[1]

\* arr.slice(0, arr.length - 1), arr.slice(1), arr.slice(-n)
DropLast(arr) == IF Len(arr) = 0 THEN <<>> ELSE SubSeq(arr, 1, Len(arr) - 1)
DropFirst(arr) == IF Len(arr) = 0 THEN <<>> ELSE Tail(arr)
LastN(arr, n) == IF Len(arr) <= n THEN arr ELSE SubSeq(arr, Len(arr) - n + 1, Len(arr))

HISTORY_LIMIT == 50

\* future: [current.present, ...current.future]
UndoFutureAppended(current) == current.future \o <<current.present>>

UndoFuture(current) == <<current.present>> \o current.future

undo(h) ==
  IF ~h.canUndo THEN h
  ELSE [h EXCEPT !.past = DropLast(h.past),
                 !.present = LastOrUndefined(h.past),
                 !.future = UndoFuture(h)]

redo(h) ==
  IF ~h.canRedo THEN h
  ELSE [h EXCEPT !.past = h.past \o <<h.present>>,
                 !.present = FirstOrUndefined(h.future),
                 !.future = DropFirst(h.future)]

pushState(h, nextState) ==
  IF JsonStringify(h.present) = JsonStringify(<<nextState>>) THEN h
  ELSE [h EXCEPT !.past = LastN(h.past \o <<h.present>>, HISTORY_LIMIT),
                 !.present = <<nextState>>,
                 !.future = <<>>]

resetState(h, nextState) ==
  [h EXCEPT !.past = <<>>, !.present = <<nextState>>, !.future = <<>>]

replaceState(h, nextState) == [h EXCEPT !.present = <<nextState>>]

\* the component renders again: canUndo, canRedo and the callbacks are new
render(h) == [h EXCEPT !.canUndo = Len(h.past) > 0, !.canRedo = Len(h.future) > 0]

Called(h) == [h EXCEPT !.calls = @ + 1]

Codec == <<protocol, origin, label, text, phase, parser, rnd, result, text2, result2, loaded>>

Undo ==
  /\ history.calls < MaxOps
  /\ history' = Called(undo(history))
  /\ UNCHANGED Codec

Redo ==
  /\ history.calls < MaxOps
  /\ history' = Called(redo(history))
  /\ UNCHANGED Codec

PushState ==
  /\ history.calls < MaxOps
  /\ \E nextState \in EditorStates : history' = Called(pushState(history, nextState))
  /\ UNCHANGED Codec

ResetState ==
  /\ history.calls < MaxOps
  /\ \E nextState \in EditorStates : history' = Called(resetState(history, nextState))
  /\ UNCHANGED Codec

ReplaceState ==
  /\ history.calls < MaxOps
  /\ \E nextState \in EditorStates : history' = Called(replaceState(history, nextState))
  /\ UNCHANGED Codec

Render ==
  /\ history' = render(history)
  /\ history' # history
  /\ UNCHANGED Codec

\* a history of n states before the present one, as n edits leave it
EditedHistory(n) ==
  History([i \in 1..n |-> IF i % 2 = 1 THEN <<InitialState>>
                          ELSE <<EditorState("Box", <<>>)>>],
          <<EditorState("Untitled", <<"e1">>)>>, <<>>)

InitHistory ==
  /\ protocol = "tpcl"
  /\ origin = "editor"
  /\ label = NoLabel
  /\ text = ""
  /\ phase = "editing"
  /\ parser = NoParser
  /\ rnd = ""
  /\ result = NoResult
  /\ text2 = ""
  /\ result2 = NoResult
  /\ loaded = NoLoaded
  /\ history \in { History(<<>>, <<InitialState>>, <<>>),
                   EditedHistory(HISTORY_LIMIT - 1),
                   EditedHistory(HISTORY_LIMIT) }

NextHistory ==
  \/ Undo
  \/ Redo
  \/ PushState
  \/ ResetState
  \/ ReplaceState
  \/ Render

SpecHistory == InitHistory /\ [][NextHistory]_vars

Next ==
  \/ Generate
  \/ ParseBegin
  \/ ParseCommand
  \/ ParseReturn
  \/ Regenerate
  \/ ParseAgain
  \/ LoadTemplate

Spec == Init /\ [][Next]_vars

(***************************************************************************)
(* Properties of the TPCL driver                                            *)
(***************************************************************************)

\* the command type of a TPCL command: what stands before the first ';'
CommandType(cmd) == Split(CleanCmd(cmd), ";")[1]

\* the comma-separated parameters after the first ';' of a TPCL command
CommandParams(cmd) ==
  LET parts == Split(CleanCmd(cmd), ";")
  IN IF Len(parts) = 1 THEN <<>> ELSE Split(parts[2], ",")

IsDefinitionCommand(cmd) == StartsWith(CommandType(cmd), "PC") \/ StartsWith(CommandType(cmd), "XB")

IsDataCommand(cmd) == StartsWith(CommandType(cmd), "RC") \/ StartsWith(CommandType(cmd), "RB")

Generated == origin = "editor" /\ phase # "template"

\* C1: in the text TPCL generate returns, every PC and XB definition command
\* stands before every RC and RB data command, whatever the element list
C1_DefinitionsBeforeData ==
  (protocol = "tpcl" /\ Generated /\ phase = "text") =>
    LET cmds == TpclMatchCommands(text)
    IN \A i, j \in 1..Len(cmds) :
         (IsDefinitionCommand(cmds[i]) /\ IsDataCommand(cmds[j])) => i < j

Near(a, b, tol) == IsFinite(a) /\ IsFinite(b) /\ Abs(a - b) <= tol

\* es and fs pair off one to one into elements that Same relates
OneToOne(es, fs, Same(_, _)) ==
  /\ Len(es) = Len(fs)
  /\ \E p \in Permutations(1..Len(es)) : \A i \in 1..Len(es) : Same(es[i], fs[p[i]])

\* the same type, content and geometry within a tenth of a millimetre
TpclSameElement(e, f) ==
  /\ e.type = f.type
  /\ Near(e.x, f.x, 1) /\ Near(e.y, f.y, 1)
  /\ CASE e.type = "text" ->
            /\ ContentOr(e) = ContentOr(f)
            /\ normalizeMag(e.width) = normalizeMag(f.width)
            /\ normalizeMag(e.height) = normalizeMag(f.height)
       [] e.type = "barcode" ->
            /\ ContentOr(e) = ContentOr(f)
            /\ Near(e.width, f.width, 1) /\ Near(e.height, f.height, 1)
       [] e.type = "qrcode" ->
            /\ ContentOr(e) = ContentOr(f)
            /\ Near(Clamp(1, 20, e.size), f.size, 0)
       [] e.type = "line" ->
            Near(e.x2, f.x2, 1) /\ Near(e.y2, f.y2, 1) /\ Near(e.thickness, f.thickness, 1)
       [] OTHER ->
            /\ Near(e.width, f.width, 1) /\ Near(e.height, f.height, 1)
            /\ Near(e.thickness, f.thickness, 1)

\* C2: TPCL round trip: parse(generate(t)) holds exactly one element per
\* element of t, of the same type, content and geometry within 0.1 mm, also
\* when t holds text elements without a content property
C2_TpclRoundTrip ==
  (protocol = "tpcl" /\ origin = "editor" /\ phase = "parsed") =>
    OneToOne(label.elements, result.template.elements, TpclSameElement)

\* numeric fields already at the values generate would write
TpclCanonical(lbl) ==
  /\ lbl.printSettings # <<>> => lbl.printSettings[1].quantity >= 1
  /\ \A i \in 1..Len(lbl.elements) :
       LET e == lbl.elements[i]
       IN /\ e.x \in 0..9999 /\ e.y \in 0..9999 /\ e.rotation \in 0..3
          /\ e.type = "text" =>
               e.width \in {n * FP : n \in 0..99} /\ e.height \in {n * FP : n \in 0..99}
          /\ e.type = "qrcode" => e.size \in 1..20

\* C3: TPCL idempotent re-encode: generate(parse(generate(t))) = generate(t),
\* character for character, for every canonical t and any quantity >= 1
C3_TpclIdempotent ==
  (protocol = "tpcl" /\ origin = "editor" /\ phase = "regenerated" /\ TpclCanonical(label))
    => text2 = text

\* C6 (TPCL half): the rotation written in a definition command of kind tag
TpclRotationField(cmd) ==
  LET params == CommandParams(cmd)
  IN IF StartsWith(CommandType(cmd), "PC") THEN At(params, 5)
     ELSE IF At(params, 2) = "T" THEN At(params, 6)
     ELSE At(params, 5)

\* the definition command generate writes for the element at 1-based position i
TpclDefinitionOf(lbl, i) ==
  LET c == TpclElementCommands(lbl.elements[i], i - 1)
  IN IF lbl.elements[i].type = "text" THEN c.pc[1] ELSE c.xb[1]

\* the orientation letter of a ZPL font, barcode or QR command
ZplOrientationField(raw) == SubSeq(raw, 3, Min(3, Len(raw)))

IsZplOrientedCommand(raw) ==
  \/ StartsWith(raw, "A")
  \/ SubSeq(raw, 1, Min(2, Len(raw))) \in {"BC", "B3", "BE", "B8", "BU", "B9", "BQ"}

\* C6: generate writes a valid rotation whatever integer the element holds: a
\* value in 0..3 in every TPCL text, barcode and QR definition, one of N, R,
\* I, B in ZPL; a rotation of 7 is written as 3 (B in ZPL)
C6_RotationValid ==
  (origin = "editor" /\ phase = "text") =>
    IF protocol = "tpcl"
    THEN LET cmds == TpclMatchCommands(text)
         IN /\ \A k \in 1..Len(cmds) :
                 IsDefinitionCommand(cmds[k]) => ParseInt(TpclRotationField(cmds[k])) \in 0..3
            /\ \A i \in 1..Len(label.elements) :
                 (label.elements[i].type \in {"text", "barcode", "qrcode"}
                    /\ label.elements[i].rotation = 7)
                 => ParseInt(TpclRotationField(TpclDefinitionOf(label, i))) = 3
    ELSE LET raws == ZplCommands(text)
         IN /\ \A k \in 1..Len(raws) :
                 IsZplOrientedCommand(raws[k]) => ZplOrientationField(raws[k]) \in {"N", "R", "I", "B"}
            /\ \A i \in 1..Len(label.elements) :
                 (label.elements[i].type \in {"text", "barcode", "qrcode"}
                    /\ label.elements[i].rotation = 7)
                 => ZplOrientationField(SubSeq(ZplElementLines(label.elements[i], ZplDpi(label))[2
                        + (IF label.elements[i].type = "barcode" THEN 1 ELSE 0)], 2, 4)) = "B"

\* C7: parse returns a template for every text and never raises; a command of
\* the wrong shape is passed over and the commands after it are still parsed
C7_ParseNeverRaises ==
  /\ phase # "failed"
  /\ ~result.threw
  /\ ~result2.threw

\* the definition tag a data command refers to, read off the command itself
DataCommandTarget(cmd) ==
  (IF StartsWith(CommandType(cmd), "RC") THEN "PC" ELSE "XB")
    \o SubSeq(CommandType(cmd), 3, Len(CommandType(cmd)))

\* the positions before position k of a command list that define the tag the
\* data command at k refers to
DefinitionsSeen(cmds, k) == {d \in 1..(k - 1) : CommandType(cmds[d]) = DataCommandTarget(cmds[k])}

LastOf(S) == CHOOSE d \in S : \A e \in S : e <= d

\* element el carries what definition command def and data command cmd say
BuiltFrom(el, def, cmd) ==
  /\ el.id = CommandType(def)
  /\ el.x = ParseInt(At(CommandParams(def), 0))
  /\ el.y = ParseInt(At(CommandParams(def), 1))
  /\ el.type = (IF StartsWith(CommandType(def), "PC") THEN "text"
                ELSE IF Len(CommandParams(def)) = 7 /\ At(CommandParams(def), 2) = "T"
                THEN "qrcode" ELSE "barcode")
  /\ el.content = <<SubSeq(CleanCmd(cmd), Len(CommandType(cmd)) + 2, Len(CleanCmd(cmd)))>>

\* C8: in TPCL parse a data command (RCnnn, RBnn) whose definition (PCnnn,
\* XBnn) was not seen earlier in the stream adds no element and changes
\* nothing the other commands build on; one whose definition was seen adds
\* exactly one element, built from the latest such definition
C8_DataCommandNeedsDefinition ==
  [][ (protocol = "tpcl" /\ phase = "parsing" /\ parser'.idx = parser.idx + 1
         /\ IsDataCommand(parser.commands[parser.idx]))
      => LET cmds == parser.commands
             k == parser.idx
             seen == DefinitionsSeen(cmds, k)
         IN /\ parser'.textDefs = parser.textDefs
            /\ parser'.barcodeDefs = parser.barcodeDefs
            /\ IF seen = {}
               THEN parser'.elements = parser.elements
               ELSE /\ Len(parser'.elements) = Len(parser.elements) + 1
                    /\ SubSeq(parser'.elements, 1, Len(parser.elements)) = parser.elements
                    /\ BuiltFrom(parser'.elements[Len(parser'.elements)],
                                 cmds[LastOf(seen)], cmds[k]) ]_vars

\* a stream was parsed to its end in which one data command came before its
\* definition and was passed over, and another came after it and gave the
\* only element
C8_Witness ==
  /\ protocol = "tpcl" /\ origin = "file" /\ phase = "parsing"
  /\ parser.idx = 4 /\ Len(parser.commands) = 3
  /\ IsDataCommand(parser.commands[1]) /\ DefinitionsSeen(parser.commands, 1) = {}
  /\ IsDataCommand(parser.commands[3]) /\ DefinitionsSeen(parser.commands, 3) = {2}
  /\ Len(parser.elements) = 1
  /\ parser.elements[1].id = CommandType(parser.commands[2])

Returned == phase \in {"parsed", "regenerated", "done", "loaded"}

\* C9: the element ids of every template parse returns are pairwise distinct,
\* for every TPCL stream (also when one definition is followed by several
\* data commands of its field number) and every ZPL stream
C9_IdsDistinct ==
  Returned =>
    LET es == result.template.elements
    IN \A i, j \in 1..Len(es) : i # j => es[i].id # es[j].id

\* C10: parse is a pure function: two calls on the same text return equal
\* templates, element ids included
C10_ParsePure ==
  phase = "done" => result2 = result

(***************************************************************************)
(* Properties of the ZPL driver                                             *)
(***************************************************************************)

\* the same type, content and every geometric field within one dot
ZplSameElement(e, f) ==
  /\ e.type = f.type
  /\ Near(e.x, f.x, 1) /\ Near(e.y, f.y, 1)
  /\ CASE e.type = "text" ->
            /\ safeFieldData(ContentOr(e)) = ContentOr(f)
            /\ Near(e.width, f.width, FP) /\ Near(e.height, f.height, FP)
       [] e.type = "barcode" ->
            /\ safeFieldData(ContentOr(e)) = ContentOr(f)
            /\ Near(e.width, f.width, 1) /\ Near(e.height, f.height, 1)
       [] e.type = "qrcode" ->
            /\ safeFieldData(ContentOr(e)) = ContentOr(f)
            /\ Near(e.size, f.size, 1)
       [] e.type = "line" ->
            Near(e.x2, f.x2, 1) /\ Near(e.y2, f.y2, 1) /\ Near(e.thickness, f.thickness, 1)
       [] OTHER ->
            /\ Near(e.width, f.width, 1) /\ Near(e.height, f.height, 1)
            /\ Near(e.thickness, f.thickness, 1)

\* C4: ZPL round trip: parse(generate(t)) holds one element per element of t,
\* of the same type and content, every geometric field within one dot; also
\* for diagonal lines of either direction and for text whose baseline y is
\* less than its ascent round(0.8 * height)
C4_ZplRoundTrip ==
  (protocol = "zpl" /\ origin = "editor" /\ phase = "parsed") =>
    OneToOne(label.elements, result.template.elements, ZplSameElement)

\* numeric fields already at the values generate would write
ZplCanonical(lbl) ==
  /\ lbl.printSettings # <<>> =>
       /\ lbl.printSettings[1].quantity >= 1
       /\ lbl.printSettings[1].dpi \in {<<>>, <<203>>, <<300>>, <<600>>}
  /\ \A i \in 1..Len(lbl.elements) :
       LET e == lbl.elements[i]
       IN /\ e.x >= 0 /\ e.y >= 0 /\ e.rotation \in 0..3
          /\ e.type = "qrcode" => e.size \in 1..20

\* C5: ZPL idempotent re-encode: generate(parse(generate(t))) = generate(t),
\* character for character, for every canonical t, diagonal lines and a dpi
\* of 300 or 600 included
C5_ZplIdempotent ==
  (protocol = "zpl" /\ origin = "editor" /\ phase = "regenerated" /\ ZplCanonical(label))
    => text2 = text

(***************************************************************************)
(* Print settings                                                           *)
(***************************************************************************)

\* every field of the print settings ps (absent: <<>>) is filled
PrintSettingsFilled(ps) ==
  /\ ps # <<>>
  /\ IsFinite(ps[1].quantity) /\ ps[1].quantity >= 1
  /\ ps[1].speed # <<>> /\ ps[1].darkness # <<>> /\ ps[1].dpi # <<>>

InferenceWidth == OptOr(parser.pwDots, Max(1, parser.maxXDots))
InferenceHeight == OptOr(parser.llDots, Max(1, parser.maxYDots))
InferenceTextHeights ==
  LET texts == SelectSeq(parser.fields, LAMBDA f : f.kind = "text")
  IN [i \in 1..Len(texts) |-> texts[i].hDots]
CandidateScore(dpi) ==
  DpiScore(dpi, InferenceWidth, InferenceHeight, median(InferenceTextHeights))

\* the resolution parse recorded in the template it returned
ResolvedDpi == result.template.printSettings[1].dpi[1]

\* C12: the resolution ZPL parse infers is the candidate of the highest
\* score among 203, 300, 600 in that order, the earliest of them on a tie; a
\* payload of ^PW816 and ^LL1218 without text resolves to 203
C12_InfersHighestScore ==
  (Returned /\ protocol = "zpl") =>
    LET order == <<203, 300, 600>>
    IN /\ \E i \in 1..3 :
            /\ order[i] = ResolvedDpi
            /\ \A j \in 1..3 : CandidateScore(order[j]) <= CandidateScore(order[i])
            /\ \A j \in 1..(i - 1) : CandidateScore(order[j]) < CandidateScore(order[i])
       /\ (/\ parser.pwDots = <<816>> /\ parser.llDots = <<1218>>
           /\ InferenceTextHeights = <<>>) => ResolvedDpi = 203

\* ^PW816 ^LL1218 without text was parsed: all three candidates score the
\* same and the first one, 203, is returned
C12_Witness ==
  /\ Returned /\ protocol = "zpl"
  /\ parser.pwDots = <<816>> /\ parser.llDots = <<1218>>
  /\ InferenceTextHeights = <<>>
  /\ CandidateScore(203) = CandidateScore(600)
  /\ ResolvedDpi = 203

\* a page width was parsed for which a later candidate scores highest
C12_WitnessLater ==
  /\ Returned /\ protocol = "zpl"
  /\ CandidateScore(203) < CandidateScore(600)
  /\ ResolvedDpi = 600

\* the dots of the k-th line of the regenerated text: 2 is ^PW, 3 is ^LL
ReemittedDots(k) ==
  LET line == Split(text2, "\n")[k] IN ParseInt(SubSeq(line, 4, Len(line)))

\* mm (fixed point) is dots / dpi * 25.4 rounded to a tenth of a millimetre
IsDotsInMm(mm, dots, dpi) ==
  /\ mm % (FP \div 10) = 0
  /\ 2 * Abs((mm \div (FP \div 10)) * dpi - dots * 254) <= dpi

\* what C13 says of one axis: the size is the page dots over the resolution
\* and generate emits the same dots again, or dots within tolerance of them
PageAxis(given, mm, k, tolerance) ==
  (given # <<>> /\ given[1] > 0) =>
    /\ IsDotsInMm(mm, given[1], ResolvedDpi)
    /\ Abs(ReemittedDots(k) - given[1]) <= tolerance

\* C13 as stated: ZPL parse records the resolved resolution, one of 203, 300
\* and 600; width and height are the page dots over that resolution rounded
\* to 0.1 mm; generate of the returned template emits the original ^PW and
\* ^LL dots again
C13_ReemitsPageDots ==
  (phase = "regenerated" /\ protocol = "zpl" /\ origin = "file") =>
    /\ ResolvedDpi \in {203, 300, 600}
    /\ PageAxis(parser.pwDots, result.template.width, 2, 0)
    /\ PageAxis(parser.llDots, result.template.height, 3, 0)

\* C13 as amended: the resolution recorded is one of 203, 300 and 600; width
\* and height are the page dots over it rounded to 0.1 mm; generate of the
\* returned template emits ^PW and ^LL within one dot of the original, and
\* the original dots themselves when the resolution is 203
C13_ReemitsWithinOneDot ==
  (phase = "regenerated" /\ protocol = "zpl" /\ origin = "file") =>
    LET tolerance == IF ResolvedDpi = 203 THEN 0 ELSE 1
    IN /\ ResolvedDpi \in {203, 300, 600}
       /\ PageAxis(parser.pwDots, result.template.width, 2, tolerance)
       /\ PageAxis(parser.llDots, result.template.height, 3, tolerance)

\* ^PW2401 resolved to 600 dpi: 101.6 mm, regenerated as ^PW2400
C13_Witness ==
  /\ phase = "regenerated" /\ protocol = "zpl" /\ origin = "file"
  /\ parser.pwDots = <<2401>>
  /\ ResolvedDpi = 600
  /\ result.template.width = 1016 * (FP \div 10)
  /\ ReemittedDots(2) = 2400

(***************************************************************************)
(* TPCL generate: what one element becomes                                  *)
(***************************************************************************)

\* the field number generate gives the text element at position i (1-based)
TextFieldNumber(i) ==
  LET el == label.elements[i]
      pcId == IF isPrefixedId(el.id, "PC") THEN el.id ELSE "PC" \o Pad(i - 1, 3)
  IN SubSeq(pcId, 3, Len(pcId))

\* the commands of the generated text whose type is tag
CommandsOfType(tag) ==
  SelectSeq(TpclMatchCommands(text), LAMBDA cmd : CommandType(cmd) = tag)

\* C14: for every text element of a TPCL template, generate emits its PCnnn
\* definition; with no content property there is no RCnnn command of that
\* field number, with content defined (also "") there is exactly one, and
\* it carries the literal content
C14_DataCommandIffContent ==
  (protocol = "tpcl" /\ Generated /\ phase = "text") =>
    \A i \in 1..Len(label.elements) :
      label.elements[i].type = "text" =>
        LET el == label.elements[i]
            rcs == CommandsOfType("RC" \o TextFieldNumber(i))
        IN /\ CommandsOfType("PC" \o TextFieldNumber(i)) # <<>>
           /\ el.content = <<>> => rcs = <<>>
           /\ el.content # <<>> =>
                rcs = << "{RC" \o TextFieldNumber(i) \o ";" \o el.content[1] \o "|}" >>

\* the size of a QR code brought into 1..20
InRange(size) == IF size > 20 THEN 20 ELSE IF size < 1 THEN 1 ELSE size

\* the magnification field of the QR code command in the generated text
EmittedMagnification ==
  IF protocol = "tpcl"
  THEN LET xb == SelectSeq(TpclMatchCommands(text),
                           LAMBDA cmd : StartsWith(CommandType(cmd), "XB"))
       IN CommandParams(xb[1])[5]
  ELSE LET bq == SelectSeq(Split(text, "\n"), LAMBDA line : StartsWith(line, "^BQ"))
       IN Split(bq[1], ",")[3]

\* C15: for a QR code of any size, generate emits the size brought into
\* 1..20 as magnification (25 as 20, 0 and negative sizes as 1) in TPCL and
\* in ZPL, in TPCL as two digits; every QR code ZPL parse returns has a size
\* in 1..20, whatever magnification the stream carries
C15_QrSizeInRange ==
  /\ (Generated /\ phase = "text" /\ Len(label.elements) = 1
        /\ label.elements[1].type = "qrcode") =>
       LET size == InRange(label.elements[1].size)
       IN /\ size \in 1..20
          /\ EmittedMagnification = (IF protocol = "tpcl" /\ size < 10
                                     THEN "0" \o NumToString(size)
                                     ELSE NumToString(size))
  /\ (Returned /\ protocol = "zpl") =>
       \A i \in 1..Len(result.template.elements) :
         result.template.elements[i].type = "qrcode" =>
           result.template.elements[i].size \in 1..20

\* a QR code of size 25 was generated in TPCL as magnification 20
C15_Witness ==
  /\ Generated /\ phase = "text" /\ protocol = "tpcl"
  /\ label.elements[1].type = "qrcode" /\ label.elements[1].size = 25
  /\ EmittedMagnification = "20"

\* a QR code of size 0 was generated in ZPL as magnification 1
C15_WitnessLow ==
  /\ Generated /\ phase = "text" /\ protocol = "zpl"
  /\ Len(label.elements) = 1
  /\ label.elements[1].type = "qrcode" /\ label.elements[1].size = 0
  /\ EmittedMagnification = "1"

\* a ZPL file with ^BQ magnification 25 was parsed to a QR code of size 20
C15_WitnessParsed ==
  /\ Returned /\ protocol = "zpl" /\ origin = "file"
  /\ IndexOfStr(text, ",25,") >= 0
  /\ Len(result.template.elements) = 1
  /\ result.template.elements[1].size = 20

\* the scale v (fixed point) as a magnification: round(v) from 10 on,
\* round(v x 10) below 10, brought into 0..99 and written in two digits
ScaledMagnification(v) ==
  LET n == IF v >= 10 * FP THEN RoundDiv(v, FP) ELSE RoundDiv(v * 10, FP)
      m == IF n > 99 THEN 99 ELSE IF n < 0 THEN 0 ELSE n
  IN IF m < 10 THEN "0" \o NumToString(m) ELSE NumToString(m)

\* the height and width magnification fields of the PC command generated
EmittedTextMagnification ==
  LET pc == SelectSeq(TpclMatchCommands(text),
                      LAMBDA cmd : StartsWith(CommandType(cmd), "PC"))
  IN <<CommandParams(pc[1])[3], CommandParams(pc[1])[4]>>

OneTextGenerated ==
  /\ protocol = "tpcl" /\ Generated /\ phase = "text"
  /\ Len(label.elements) = 1 /\ label.elements[1].type = "text"

IsTwoDigits(s) == Len(s) = 2 /\ AllDigits(s)

\* C16 as stated: for a TPCL text of any scale v, the magnification emitted
\* is round(v) for v >= 10 and round(v x 10) for v < 10, brought into 0..99,
\* in two digits; 150 is emitted as 99
C16_MagnificationOfEveryScale ==
  OneTextGenerated =>
    LET el == label.elements[1]
        mag == EmittedTextMagnification
    IN /\ mag = <<ScaledMagnification(el.height), ScaledMagnification(el.width)>>
       /\ IsTwoDigits(mag[1]) /\ IsTwoDigits(mag[2])
       /\ el.width = 150 * FP => mag[2] = "99"

\* what generate emits for the scale v: 10 for a scale of 0 or below
MagnificationOrDefault(v) == IF v <= 0 THEN "10" ELSE ScaledMagnification(v)

\* C16 as amended: for a scale v above 0 the magnification emitted is
\* round(v) for v >= 10 and round(v x 10) for v < 10, brought into 0..99;
\* for a scale of 0 or below it is 10; it is always two digits, and 150 is
\* emitted as 99
C16_MagnificationOfPositiveScale ==
  OneTextGenerated =>
    LET el == label.elements[1]
        mag == EmittedTextMagnification
    IN /\ mag = <<MagnificationOrDefault(el.height), MagnificationOrDefault(el.width)>>
       /\ IsTwoDigits(mag[1]) /\ IsTwoDigits(mag[2])
       /\ el.width = 150 * FP => mag[2] = "99"

\* a text of width scale 150 was generated with magnification 99
C16_Witness ==
  /\ OneTextGenerated
  /\ label.elements[1].width = 150 * FP
  /\ EmittedTextMagnification[2] = "99"

\* a text of height scale 0 was generated with magnification 10
C16_WitnessZero ==
  /\ OneTextGenerated
  /\ label.elements[1].height = 0
  /\ EmittedTextMagnification[1] = "10"

\* n in at least four characters, zeros before it
FourDigits(n) == PadStart(NumToString(n), 4, "0")

\* tenths of a millimetre in mm (fixed point), rounded
Tenths(mm) == RoundDiv(mm * 10, FP)

SameHistory(g, h) == g.past = h.past /\ g.present = h.present /\ g.future = h.future

ZplCmd(k) == SubSeq(parser.commands[k], 1, Min(2, Len(parser.commands[k])))

IsContentType(k) ==
  \/ StartsWith(ZplCmd(k), "A")
  \/ ZplCmd(k) \in {"BC", "B3", "BE", "B8", "BU", "B9", "BQ", "GB", "GD"}

\* the commands between the boundary marker before command k and command k
FieldCommands(k) ==
  {j \in 1..(k - 1) : \A i \in j..(k - 1) : ZplCmd(i) # "FS"}

\* the ^FS commands read so far at which the claim has a field produced: an
\* origin and a content type have arrived since the boundary marker before
ProducingMarkers ==
  SelectSeq([k \in 1..(parser.idx - 1) |-> k],
            LAMBDA k : /\ ZplCmd(k) = "FS"
                       /\ \E j \in FieldCommands(k) : ZplCmd(j) = "FO"
                       /\ \E j \in FieldCommands(k) : IsContentType(j))

\* the origin of the field closed at marker k: its last ^FO
OriginOf(k) ==
  LET j == CHOOSE j \in FieldCommands(k) :
             /\ ZplCmd(j) = "FO"
             /\ \A i \in FieldCommands(k) : ZplCmd(i) = "FO" => i <= j
      parts == Split(SubSeq(parser.commands[j], 3, Len(parser.commands[j])), ",")
  IN <<FiniteOr(ParseInt(At(parts, 0)), 0), FiniteOr(ParseInt(At(parts, 1)), 0)>>

ZplReading == protocol = "zpl" /\ phase \in {"parsing", "parsed", "regenerated", "loaded", "done"}

\* C19: ZPL parse clears origin, content type and data at every ^FS: the
\* field records are exactly those of the ^FS commands before which, since
\* the ^FS before, both a ^FO and a content-type command arrived, each with
\* the origin of its own ^FO; content without an origin of its own and an
\* ^FS with nothing pending give no record (and no error)
C19_FieldNeedsOwnOrigin ==
  ZplReading =>
    /\ Len(parser.fields) = Len(ProducingMarkers)
    /\ \A i \in 1..Len(parser.fields) :
         <<parser.fields[i].foX, parser.fields[i].foY>> = OriginOf(ProducingMarkers[i])

\* the ^BY commands among the first k - 1 commands
BarDefaults(k) == {j \in 1..(k - 1) : ZplCmd(j) = "BY"}

\* narrow width and ratio of the last ^BY before command k, 2 and 2 if none
BarParameters(k) ==
  IF BarDefaults(k) = {} THEN <<2, 2>>
  ELSE LET j == CHOOSE j \in BarDefaults(k) : \A i \in BarDefaults(k) : i <= j
           parts == Split(SubSeq(parser.commands[j], 3, Len(parser.commands[j])), ",")
       IN <<ParseInt(parts[1]), ParseInt(parts[2])>>

\* C20: the parameters of a ^BY outlast the boundary markers: every bar code
\* field ZPL parse closes has the narrow width and the ratio of the last ^BY
\* read before, however many fields lie between, and 2 and 2 when no ^BY
\* was read before
C20_BarDefaultsPersist ==
  [][(ParseCommand /\ protocol = "zpl" /\ Len(parser'.fields) > Len(parser.fields)
        /\ parser'.fields[Len(parser'.fields)].kind = "barcode")
     => LET field == parser'.fields[Len(parser'.fields)]
        IN <<field.narrowDots, field.ratio>> = BarParameters(parser.idx)]_vars

FieldKinds == [i \in 1..Len(parser.fields) |-> parser.fields[i].kind]

\* a bar code with ^BY3,3, a text, a bar code without ^BY: the second bar
\* code has narrow width 3 and ratio 3
C20_Witness ==
  /\ ZplReading /\ origin = "file"
  /\ FieldKinds = <<"barcode", "text", "barcode">>
  /\ BarDefaults(parser.idx) = {1}
  /\ parser.fields[3].narrowDots = 3 /\ parser.fields[3].ratio = 3

\* a bar code before any ^BY: narrow width 2, ratio 2
C20_WitnessDefault ==
  /\ ZplReading /\ origin = "file"
  /\ FieldKinds = <<"barcode">>
  /\ BarDefaults(parser.idx) = {}
  /\ parser.fields[1].narrowDots = 2 /\ parser.fields[1].ratio = 2

\* a bar code after a second ^BY: narrow width and ratio of the second
C20_WitnessOverwritten ==
  /\ ZplReading /\ origin = "file"
  /\ FieldKinds = <<"barcode", "qrcode", "barcode">>
  /\ parser.fields[1].narrowDots = 3
  /\ parser.fields[3].narrowDots = 4 /\ parser.fields[3].ratio = 2

(***************************************************************************)
(* ZPL: boxes and lines                                                     *)
(***************************************************************************)

\* what C21 says the box w, h, t at the origin x, y is decoded to
BoxDecoded(x, y, w, h, t, e) ==
  IF w <= t \/ h <= t
  THEN /\ e.type = "line"
       /\ e.x = x /\ e.y = y /\ e.thickness = t
       /\ IF w <= t THEN e.x2 = x /\ e.y2 = y + h
          ELSE e.x2 = x + w /\ e.y2 = y
  ELSE /\ e.type = "rectangle"
       /\ e.x = x /\ e.y = y /\ e.width = w /\ e.height = h /\ e.thickness = t

\* every ^GB field read is decoded by the rule
BoxRule ==
  (Returned /\ protocol = "zpl") =>
    \A i \in 1..Len(parser.fields) :
      parser.fields[i].kind = "gb" =>
        LET f == parser.fields[i]
        IN BoxDecoded(f.foX, f.foY, f.wDots, f.hDots, f.tDots, result.template.elements[i])

OneLineParsed ==
  /\ protocol = "zpl" /\ Generated /\ phase = "parsed"
  /\ Len(label.elements) = 1 /\ label.elements[1].type = "line"
  /\ (label.elements[1].x = label.elements[1].x2 \/ label.elements[1].y = label.elements[1].y2)

\* the line e has the orientation and the length of the line el
SameOrientationAndLength(el, e) ==
  /\ e.type = "line"
  /\ IF el.y = el.y2 THEN e.y2 = e.y /\ Abs(e.x2 - e.x) = Abs(el.x2 - el.x)
     ELSE e.x2 = e.x /\ Abs(e.y2 - e.y) = Abs(el.y2 - el.y)

\* C21 as stated: ZPL parse decodes ^GB w,h,t as a line exactly when w <= t
\* or h <= t, vertical (x2 = x, y2 = y + h) when w <= t and horizontal
\* (x2 = x + w, y2 = y) otherwise, and as a rectangle in every other case;
\* every horizontal or vertical line generate emits, whatever its length and
\* thickness, is parsed to a line of the same orientation and length
C21_BoxDecoding ==
  /\ BoxRule
  /\ OneLineParsed =>
       Len(result.template.elements) = 1
       /\ SameOrientationAndLength(label.elements[1], result.template.elements[1])

(***************************************************************************)
(* TPCL parse: bar codes and QR codes                                       *)
(***************************************************************************)

XbCommands == SelectSeq(TpclMatchCommands(text), LAMBDA cmd : StartsWith(CommandType(cmd), "XB"))

\* a TPCL text with one XB definition was parsed to one element
OneCodeParsed ==
  /\ protocol = "tpcl" /\ Returned
  /\ Len(XbCommands) = 1
  /\ Len(result.template.elements) = 1

\* C22: TPCL parse takes an XB definition for a QR code exactly when it has
\* 7 parameters and the third is 'T', for a bar code otherwise; the XB
\* definition generate emits for a QR code is taken for a QR code, the one
\* it emits for a bar code of each of the six symbologies for a bar code of
\* that symbology
C22_QrOrBarcode ==
  OneCodeParsed =>
    LET params == CommandParams(XbCommands[1])
        e == result.template.elements[1]
    IN /\ e.type = "qrcode" <=> (Len(params) = 7 /\ params[3] = "T")
       /\ e.type = "barcode" <=> ~(Len(params) = 7 /\ params[3] = "T")
       /\ Generated =>
            /\ e.type = label.elements[1].type
            /\ e.type = "barcode" => e.barcodeType = label.elements[1].barcodeType

\* the XB definition generate wrote for a code39 bar code was parsed to a
\* bar code of symbology code39
C22_Witness ==
  /\ OneCodeParsed /\ Generated
  /\ label.elements[1].type = "barcode" /\ label.elements[1].barcodeType = "code39"
  /\ Len(CommandParams(XbCommands[1])) = 11
  /\ result.template.elements[1].type = "barcode"
  /\ result.template.elements[1].barcodeType = "code39"

\* a definition with the marker 'T' and 8 parameters was parsed to a bar code
C22_WitnessMarkerOnly ==
  /\ OneCodeParsed /\ origin = "file"
  /\ Len(CommandParams(XbCommands[1])) = 8 /\ CommandParams(XbCommands[1])[3] = "T"
  /\ result.template.elements[1].type = "barcode"

(***************************************************************************)
(* Fonts: from code to typography                                           *)
(***************************************************************************)

\* a text with one text field was parsed to one text element
OneTextParsed ==
  /\ origin = "file" /\ Returned
  /\ Len(result.template.elements) = 1
  /\ result.template.elements[1].type = "text"

\* the font code the text carries: the fifth parameter of the PC definition,
\* the character behind ^A
FontCodeRead ==
  IF protocol = "tpcl"
  THEN At(CommandParams(TpclMatchCommands(text)[1]), 4)
  ELSE LET at == IndexOfStr(text, "^A") IN SubSeq(text, at + 3, at + 3)

\* the typography the program takes for the parsed element: the one TPCL
\* parse wrote into it, the one resolveFontMeta finds for its font code
TypographyTaken ==
  LET e == result.template.elements[1]
  IN IF protocol = "tpcl"
     THEN Typo(FontCodeRead, e.fontFamily, e.fontSizePt, e.fontWeight, e.fontStyle)
     ELSE resolveFontMeta(e, FontTable(protocol))

IsEntryOf(typo, code) ==
  \E i \in 1..Len(FontTable(protocol)) :
    /\ FontTable(protocol)[i].code = code
    /\ FontTable(protocol)[i].fontFamily = typo.fontFamily
    /\ FontTable(protocol)[i].fontSizePt = typo.fontSizePt
    /\ FontTable(protocol)[i].fontWeight = typo.fontWeight
    /\ FontTable(protocol)[i].fontStyle = typo.fontStyle

InFontTable(code) == \E i \in 1..Len(FontTable(protocol)) : FontTable(protocol)[i].code = code

\* C23: from code to typography, a font code of the protocol's table gets
\* the entry of that code and a code not in the table gets the first entry
\* of the table (TPCL: the entry of 'A')
C23_FallbackFirstEntry ==
  OneTextParsed =>
    IF InFontTable(FontCodeRead) THEN IsEntryOf(TypographyTaken, FontCodeRead)
    ELSE IsEntryOf(TypographyTaken, FontTable(protocol)[1].code)

\* C23 as the code has it: a code not in the table gets the entry of 'G'
\* in TPCL parse, the first entry of the table (font '0') for ZPL
C23_FallbackDefaultEntry ==
  OneTextParsed =>
    IF InFontTable(FontCodeRead) THEN IsEntryOf(TypographyTaken, FontCodeRead)
    ELSE IsEntryOf(TypographyTaken, IF protocol = "tpcl" THEN "G" ELSE FontTable(protocol)[1].code)

\* a PC definition with font 'Z' was parsed to a text in Helvetica 6 pt
C23_Witness ==
  /\ OneTextParsed /\ protocol = "tpcl"
  /\ FontCodeRead = "Z"
  /\ result.template.elements[1].fontFamily = "helvetica"
  /\ result.template.elements[1].fontSizePt = 6 * FP

\* a PC definition with font 'M' was parsed to a text in Presentation 18 pt
C23_WitnessKnown ==
  /\ OneTextParsed /\ protocol = "tpcl"
  /\ FontCodeRead = "M"
  /\ result.template.elements[1].fontFamily = "presentation"

\* a ZPL field in font 'Z' was parsed and is shown in the first font of the table
C23_WitnessZpl ==
  /\ OneTextParsed /\ protocol = "zpl"
  /\ FontCodeRead = "Z"
  /\ TypographyTaken = ZPL_FONT_METADATA[1]

(***************************************************************************)
(* Fonts: from typography to code                                           *)
(***************************************************************************)

\* the font code of the first PC definition of a TPCL text
PcFontCode(tpcl) ==
  LET pcs == SelectSeq(TpclMatchCommands(tpcl),
                       LAMBDA cmd : StartsWith(CommandType(cmd), "PC"))
  IN At(CommandParams(pcs[1]), 4)

SameTypography(a, b) ==
  /\ a.fontFamily = b.fontFamily /\ a.fontSizePt = b.fontSizePt
  /\ a.fontWeight = b.fontWeight /\ a.fontStyle = b.fontStyle

\* generate has written the PC definition of a template of one text
OneTextWritten ==
  /\ protocol = "tpcl" /\ Generated
  /\ Len(label.elements) = 1 /\ label.elements[1].type = "text"

\* the text of a file with one PC definition was parsed and generated again
OneTextRewritten ==
  /\ protocol = "tpcl" /\ OneTextParsed /\ phase = "regenerated"

\* C24: from typography to code TPCL generate takes the entry equal on all
\* four fields and the default code 'G' when there is none; no two entries
\* of the table are equal on the four fields, so that the code of each of
\* the 20 entries, parsed and encoded again, is that code
C24_FontCodeRoundTrip ==
  /\ \A i, j \in 1..Len(TPCL_FONT_PRESETS) :
       SameTypography(TPCL_FONT_PRESETS[i], TPCL_FONT_PRESETS[j]) => i = j
  /\ OneTextWritten =>
       LET el == label.elements[1]
           code == PcFontCode(text)
       IN IF \E i \in 1..Len(TPCL_FONT_PRESETS) : SameTypography(TPCL_FONT_PRESETS[i], el)
          THEN IsEntryOf(el, code)
          ELSE code = "G"
  /\ (OneTextRewritten /\ InFontTable(FontCodeRead)) => PcFontCode(text2) = FontCodeRead

\* the definition with font 'C' (Times 10 pt bold) was parsed and written
\* again with font 'C'
C24_Witness ==
  /\ OneTextRewritten
  /\ FontCodeRead = "C"
  /\ result.template.elements[1].fontWeight = "bold"
  /\ PcFontCode(text2) = "C"

\* a text in Helvetica 10 pt bold, which no entry has, was written with 'G'
C24_WitnessDefault ==
  /\ OneTextWritten
  /\ label.elements[1].fontFamily = "helvetica" /\ label.elements[1].fontWeight = "bold"
  /\ label.elements[1].fontSizePt = 10 * FP
  /\ PcFontCode(text) = "G"

(***************************************************************************)
(* ZPL generate: command prefixes in content                                *)
(***************************************************************************)

\* the template with every content emptied
Blanked(lbl) ==
  [lbl EXCEPT !.elements =
     [i \in DOMAIN lbl.elements |->
        IF lbl.elements[i].type \in {"text", "barcode", "qrcode"}
        THEN [lbl.elements[i] EXCEPT !.content = <<"">>]
        ELSE lbl.elements[i]]]

HasPrefixChar(s) == \E i \in 1..Len(s) : CharAt(s, i) \in {"^", "~"}

\* data is content with a space in the place of every '^' and '~'
IsSpacedOut(data, content) ==
  /\ Len(data) = Len(content)
  /\ \A i \in 1..Len(content) :
       CharAt(data, i) = (IF CharAt(content, i) \in {"^", "~"} THEN " " ELSE CharAt(content, i))

ZplGenerated == protocol = "zpl" /\ Generated

DpiTemplateParsed ==
  /\ ZplGenerated /\ Returned
  /\ <<label.width, label.height>> \in CommonLabelSizes
  /\ label.printSettings[1].dpi # <<>>
  /\ label.printSettings[1].dpi[1] \in {DEFAULT_DPI, 300, 600}

TenthOfMm == FP \div 10

C26_WitnessTied ==
  /\ DpiTemplateParsed
  /\ label.printSettings[1].dpi = <<300>>
  /\ label.width = 100 * FP
  /\ result.template.printSettings[1].dpi = <<DEFAULT_DPI>>
  /\ result.template.width = 1478 * TenthOfMm

(***************************************************************************)
(* TPCL generate: field tags                                                *)
(***************************************************************************)

\* the tags of the definitions with the given prefix, in the order generate
\* wrote them
DefinitionTags(prefix) ==
  LET defs == SelectSeq(TpclMatchCommands(text),
                        LAMBDA cmd : /\ StartsWith(CommandType(cmd), prefix)
                                     /\ Len(CommandParams(cmd)) > 0)
  IN [k \in 1..Len(defs) |-> CommandType(defs[k])]

PairwiseDistinct(seq) == \A i, j \in 1..Len(seq) : seq[i] = seq[j] => i = j

\* C27: in the text TPCL generate returns no two text definitions have the
\* same PCnnn tag and no two bar code or QR code definitions the same XBnn
\* tag, also when some elements bring their id as tag and others get the
\* tag of their index
C27_TagsDistinct ==
  (protocol = "tpcl" /\ Generated) =>
    /\ PairwiseDistinct(DefinitionTags("PC"))
    /\ PairwiseDistinct(DefinitionTags("XB"))

(***************************************************************************)
(* TPCL: magnification over parse and generate                              *)
(***************************************************************************)

\* the parameters of the first PC definition of a TPCL text
PcParams(tpcl) ==
  LET pcs == SelectSeq(TpclMatchCommands(tpcl),
                       LAMBDA cmd : StartsWith(CommandType(cmd), "PC"))
  IN CommandParams(pcs[1])

\* C28: the two magnifications of a PC definition, each two digits in
\* 01..99, are written again unchanged when the parsed text element is
\* generated
C28_MagnificationKept ==
  OneTextRewritten =>
    /\ At(PcParams(text2), 2) = At(PcParams(text), 2)
    /\ At(PcParams(text2), 3) = At(PcParams(text), 3)

(***************************************************************************)
(* useHistory: what the history holds                                       *)
(***************************************************************************)

\* no entry of the array is undefined
AllDefined(arr) == \A i \in 1..Len(arr) : arr[i] # <<>>

\* C29: whatever the order of the calls of undo, redo, pushState,
\* replaceState and resetState, two calls of undo or of redo between two
\* renders among them, present is a state that was supplied, never
\* undefined, and no entry of past or future is undefined
C29_NeverUndefined ==
  phase = "editing" =>
    /\ history.present # <<>>
    /\ AllDefined(history.past)
    /\ AllDefined(history.future)

(***************************************************************************)
(* useHistory: the length of the history                                    *)
(***************************************************************************)

\* past with the old present appended, the oldest entry dropped when that
\* makes more than 50
PastAfterPush(h) ==
  LET appended == h.past \o <<h.present>>
  IN IF Len(appended) > HISTORY_LIMIT
     THEN SubSeq(appended, Len(appended) - HISTORY_LIMIT + 1, Len(appended))
     ELSE appended

\* C30: past never holds more than 50 states; pushState of a state other
\* than present appends the old present to past, dropping the oldest entry
\* beyond 50, and empties future; pushState of the state present is changes
\* nothing; replaceState changes present only
C30_PastBounded ==
  phase = "editing" =>
    /\ Len(history.past) <= HISTORY_LIMIT
    /\ \A nextState \in EditorStates :
         LET pushed == pushState(history, nextState)
             replaced == replaceState(history, nextState)
         IN /\ IF <<nextState>> # history.present
               THEN /\ pushed.past = PastAfterPush(history)
                    /\ pushed.present = <<nextState>>
                    /\ pushed.future = <<>>
               ELSE pushed = history
            /\ replaced.present = <<nextState>>
            /\ replaced.past = history.past
            /\ replaced.future = history.future

====
